---- MODULE Spec2Model ----
(***************************************************************************)
(* startmcp: an MCP gateway.  This module models                           *)
(*   - the tool aggregator and the tool router (mcp/aggregator.py,         *)
(*     mcp/router.py),                                                     *)
(*   - the request/reply correlation of the stdio and SSE transports       *)
(*     driven by one MCPClient (mcp/client.py, mcp/transport/*.py),        *)
(*   - the start-up of the gateway (mcp/gateway.py).                       *)
(* Strings that the code builds or takes apart (tool names) are sequences  *)
(* of symbols, so that f"{provider}:{tool}" and split(":", 1) are computed *)
(* and not assumed.                                                        *)
(***************************************************************************)
EXTENDS Integers, Sequences, FiniteSets, TLC

\* ------------------------------------------------------------------ bounds
\* longest tool list one provider returns from list_tools()
MaxTools == 2
\* number of aggregate_tools() calls on one ToolAggregator
MaxAggCalls == 2

\* number of send_request calls made through one MCPClient
MaxCalls == 2

\* the longest list of resources or of prompts a provider returns
MaxListed == 2

\* the number of lines the stdio server reads
MaxLines == 3

\* the longest list of enabled providers of a configuration
MaxEnabled == 2

\* the number of MCP operations of one provider in progress at a time, beside the
\* list_resources() of a health check
MaxOps == 1

\* the number of transports one provider creates (one per connect())
MaxTransports == 2

\* the number of start() calls on one gateway
MaxStarts == 2

\* timeout_duration = timeout or 60.0
DefaultTimeout == 60

\* ------------------------------------------------------- names as strings
Colon == ":"

\* the connected providers, in the order of the list given to ToolAggregator
ProviderList == <<"p1", "p2">>

ProviderNames == {ProviderList[i] : i \in 1..Len(ProviderList)}

\* provider.name as a string
PName(p) == <<p>>

\* natural tool names a backend may return; the second one contains ':'
NatNames == {<<"s">>, <<"p1", Colon, "s">>}

\* f"{provider_name}:{original_name}"
NamespacedName(p, n) == <<p, Colon>> \o n

\* ":" in tool_name
HasColon(n) == \E i \in 1..Len(n) : n[i] = Colon

\* index of the first ':' of a name that has one
FirstColon(n) == CHOOSE i \in 1..Len(n) : n[i] = Colon /\ \A j \in 1..(i-1) : n[j] # Colon

\* a split on the last ':' instead of the first
SplitNameAtLast(n) ==
  LET last == CHOOSE i \in 1..Len(n) : n[i] = Colon /\ \A j \in (i+1)..Len(n) : n[j] # Colon
  IN <<SubSeq(n, 1, last - 1), SubSeq(n, last + 1, Len(n))>>

\* tool_name.split(":", 1) for a name that contains ':'
SplitName(n) == <<SubSeq(n, 1, FirstColon(n) - 1), SubSeq(n, FirstColon(n) + 1, Len(n))>>

\* what list_tools() of one provider may return: a list of tools (by name)
ToolLists == UNION {[1..k -> NatNames] : k \in 0..MaxTools}

\* what list_tools() of one provider does in one call: it returns the tools the
\* provider holds (ok) or raises, whatever tools the provider holds
ListToolsReturns == [ok : BOOLEAN, tools : ToolLists]

\* the separator of a provider prefix in a resource URI
Sep == "://"

\* the URIs a provider may list
ResUris == {<<"x">>, <<"p1", Sep, "x">>, <<"p2", Sep, "x">>}

ResLists == UNION {[1..k -> ResUris] : k \in 0..MaxListed}

\* what list_resources() of one provider does in one call
ListResourcesReturns == [ok : BOOLEAN, uris : ResLists]

\* the names of the prompts a provider may list
PromptNames == {"g", "h"}

PromptLists == UNION {[1..k -> PromptNames] : k \in 0..MaxListed}

\* what list_prompts() of one provider does in one call
ListPromptsReturns == [ok : BOOLEAN, prompts : PromptLists]

\* the code of the error response built for an exception a handler raised
ServerErrorCode == -32000

\* no tools/call answered yet
NoRpcResponse == [kind |-> "none", code |-> 0, data_type |-> "None"]

\* what call_tool() of a provider does: it returns, or raises an exception of some class
RaiseChoices == {"None", "ValueError", "RuntimeError", "Exception"}

\* no resource read routed yet
NoResRoute == [uri |-> <<>>, outcome |-> "none", calls |-> <<>>]

\* arguments of a tool call (None or a dict)
Args == {"None", "q"}

\* names a caller may ask the router for
RouteNames == NatNames \cup {NamespacedName(p, n) : p \in ProviderNames, n \in NatNames}
                \cup {<<"zz">>, <<"zz", Colon, "s">>}

\* no ToolCallResult
NoResult == [content |-> <<>>]

NoRoute == [tool_name |-> <<>>, arguments |-> "None", outcome |-> "none", calls |-> <<>>, result |-> NoResult]

VARIABLES
  \* ToolAggregator
  tool_cache,        \* _tool_cache: published name -> enriched tool
  provider_map,      \* _provider_map: published name -> provider name
  conflicts,         \* _conflicts
  provider_tools,    \* what each provider returned in the last aggregate_tools()
  aggregated_tools,  \* the list the last aggregate_tools() returned
  aggCalls,          \* number of aggregate_tools() calls so far
  \* ToolRouter
  routerProviders,   \* keys of ToolRouter.providers
  route,             \* the last route_tool_call(): its inputs, provider calls and outcome
  \* StdioMCPServer
  rpc_response       \* the response to the tools/call request that made the last route

VARIABLES
  \* MCPClient and its transport
  kind,              \* "stdio" or "sse"
  connected,         \* Transport.connected
  listening,         \* the _listen_task is running
  request_counter,   \* MCPClient._request_counter
  pc,                \* where each send_request call is
  reqId,             \* request.id of each call
  fut,               \* the asyncio.Future of each call
  pending,           \* _pending_requests: str(request.id) -> the call whose future it holds
  lock,              \* holder of _request_lock (0: free)
  outcome,           \* how each call ended
  completions,       \* number of set_result/set_exception calls on each future
  lastEffect         \* what the reader did with the last message it handled

\* state of the resource and prompt aggregators and of the resource router
VARIABLES
  list_tools_ret,       \* what list_tools() of each provider did in the last aggregate_tools()
  list_resources_ret,   \* what list_resources() of each provider did in the last aggregation
  aggregated_resources, \* the list aggregate_resources() returned, each resource with the
                        \* provider that listed it and the URI it listed
  list_prompts_ret,     \* what list_prompts() of each provider did in the last aggregation
  aggregated_prompts,   \* the list aggregate_prompts() returned
  resRoute,             \* the last route_resource_read: URI, outcome, read_resource calls
  catOp                 \* the aggregation that ran last: "tools", "resources", "prompts"

catVars == <<list_tools_ret, list_resources_ret, aggregated_resources, list_prompts_ret,
             aggregated_prompts, resRoute, catOp>>

\* state of the gateway
VARIABLES
  enabled_providers, \* Config.enabled_providers, the names in the order of the file
  registered,        \* the names the registry has an adapter class for
  providers,         \* MCPGateway.providers: name -> provider instance
  startPc,           \* 0: no start() in progress; i: the loop is about to take the i-th name
  startCalls,        \* the number of start() calls made
  attempts,          \* what the iterations of the loop of the current or last start() did
  mapAtCall,         \* the names in the provider map when that start() was called
  startResult,       \* "ok" or "RuntimeError" once that start() has returned or raised
  provider_list,     \* the instances the aggregators of the gateway were built over
  lastOp,            \* the gateway operation that ended last: "start", "stop" or "none"
  everSucceeded,     \* some start() of this gateway has returned without raising
  stopPc,            \* "idle", or "loop" while stop() goes through the providers
  stopRemaining,     \* the names the loop of stop() has still to take
  disconnectLog,     \* the disconnect() calls of the current or last stop(), in order
  mapAtStop,         \* the instances in the provider map when that stop() was called
  opBeforeStop,      \* lastOp when that stop() was called
  stopResult,        \* "ok" once that stop() has returned
  refreshPc,         \* 0, or the part _refresh_aggregations is about to compute: 1 tools,
                     \* 2 resources, 3 prompts
  tool_map_gen,      \* the refresh whose tools fill the maps of tool_aggregator, 0: empty
  gw_tools_cache,    \* MCPGateway._tools_cache
  gw_resources_cache, \* MCPGateway._resources_cache
  gw_prompts_cache,  \* MCPGateway._prompts_cache
  seen               \* what the readers of the three lists and of the tool map got last

\* state of one MCPProvider and of the last calls made on it
VARIABLES
  p_client,          \* whether MCPProvider.client is set
  p_connected,       \* MCPProvider._connected
  t_connected,       \* Transport.connected of the provider's current transport
  p_history,         \* how the provider got here: "never", "connected", "connect_failed",
                     \* "disconnected", "disconnect_failed"
  p_op,              \* the MCP operation called in the last step and what it did
  hc,                \* the health_check() that returned in the last step, and what it did
  conn_call,         \* the connect() in progress, suspended in the connect() of its transport
  disc_call,         \* the disconnect() in progress, suspended in the disconnect() of
                     \* its transport
  hc_call,           \* the health_check() in progress
  p_ops,             \* the send_request calls in progress: those of the MCP operations
                     \* and, at index 0, that of the list_resources() of health_check()
  lock_waiters,      \* the calls that wait for a _request_lock, in the order they came
  t_id,              \* which transport object the client of the provider holds
  t_made             \* the number of transport objects the provider has created

provVars == <<p_client, p_connected, t_connected, p_history, p_op, hc, conn_call, disc_call,
              hc_call, p_ops, lock_waiters, t_id, t_made>>

\* state of the stdio server's read loop
VARIABLES
  srv_state,         \* "reading" while _read_loop runs, "ended" after it
  srv_request,       \* the id of the local variable 'request' of _read_loop, "unbound"
                     \* until a line was parsed into a JSONRPCRequest
  srv_log,           \* the lines answered so far, each with the responses written for it,
                     \* in the order of the writes
  srv_reads,         \* the number of lines read from stdin
  srv_inflight,      \* the requests read whose handle_request is awaited
  srv_running,       \* MCPServer.running
  serve_pc           \* run_server of the serve command: "waiting" in its while loop,
                     \* "stopping" while server.stop() awaits the read task it cancelled,
                     \* "gateway_stop" inside gateway.stop(), "stopped" after it

srvVars == <<srv_state, srv_request, srv_log, srv_reads, srv_inflight, srv_running, serve_pc>>

\* state of the gateway's list handlers
VARIABLES
  l_aggregators,     \* whether tool_aggregator, resource_aggregator and prompt_aggregator are set
  l_cache,           \* _tools_cache, _resources_cache, _prompts_cache
  l_start_pc,        \* start(): 0 not called, 1..3 the cache _refresh_aggregations assigns
                     \* next, 4 returned
  l_handler,         \* the list handler in progress and the cache its refresh assigns next
  l_last             \* the last list handler call and what it did

lstVars == <<l_aggregators, l_cache, l_start_pc, l_handler, l_last>>

\* state of one transport over its connect() and disconnect() calls
VARIABLES
  tl_kind,           \* "stdio" for a StdioTransport, "sse" for an SSETransport
  tl_connected,      \* Transport.connected
  tl_listen_task,    \* _listen_task: "None", "running", "cancelling" (cancel() was called
                     \* on it and it has not run since) or "done"
  tl_handle,         \* whether StdioTransport.process or SSETransport.client is set
  tl_child,          \* the subprocess of a StdioTransport: "none", "running" or "exited"
  tl_history,        \* how the transport got here: "never", "connected", "connect_failed",
                     \* "disconnected"
  tl_disconnects,    \* the number of disconnect() calls so far
  tl_last,           \* the last disconnect() call that ended and what it did
  tl_conn,           \* the connect() in progress: "idle" or "starting"
  tl_disc            \* the disconnect() in progress: the await it is suspended in, whether
                     \* the listen task it awaits is done, the calls it has made and the
                     \* transport as it found it

lifeVars == <<tl_kind, tl_connected, tl_listen_task, tl_handle, tl_child, tl_history,
              tl_disconnects, tl_last, tl_conn, tl_disc>>

\* a Config and the file it is saved to and loaded from
VARIABLES
  cfg,               \* the Config being edited and saved
  cfg_file_exists,   \* whether config.yaml exists
  cfg_file,          \* the data written to config.yaml
  cfg_loaded,        \* the Config that Config.load returned
  cfg_phase,         \* "editing", "reading" after get_provider_config(), "saved" after
                     \* save(), "loaded" after load()
  cfg_got            \* the last get_provider_config() call and what it did

cfgVars == <<cfg, cfg_file_exists, cfg_file, cfg_loaded, cfg_phase, cfg_got>>

\* the components around the gateway
periVars == <<provVars, srvVars, lstVars, lifeVars, cfgVars>>

gwConfig == <<enabled_providers, registered>>

gwStart == <<startPc, startCalls, attempts, mapAtCall, startResult>>

gwStop == <<stopPc, stopRemaining, disconnectLog, mapAtStop, opBeforeStop, stopResult>>

gwCatalog == <<provider_list, refreshPc, tool_map_gen, gw_tools_cache, gw_resources_cache,
               gw_prompts_cache>>

gwVars == <<gwConfig, providers, gwStart, gwStop, gwCatalog, lastOp, everSucceeded, seen>>

trVars == <<kind, connected, listening, request_counter, pc, reqId,
            fut, pending, lock, outcome, completions, lastEffect>>

aggVars == <<tool_cache, provider_map, conflicts, provider_tools, aggregated_tools, aggCalls,
             routerProviders, route, rpc_response, catVars>>

vars == <<aggVars, trVars, gwVars, periVars>>

\* what the actions of one of these components leave unchanged
provRest == <<aggVars, trVars, gwVars, srvVars, lstVars, lifeVars, cfgVars>>
srvRest == <<aggVars, trVars, gwVars, provVars, lstVars, lifeVars, cfgVars>>
srvOthers == <<aggVars, trVars, provVars, lstVars, lifeVars, cfgVars>>
lstRest == <<aggVars, trVars, gwVars, provVars, srvVars, lifeVars, cfgVars>>
lifeRest == <<aggVars, trVars, gwVars, provVars, srvVars, lstVars, cfgVars>>
cfgRest == <<aggVars, trVars, gwVars, provVars, srvVars, lstVars, lifeVars>>

\* an empty dict
EmptyMap == [x \in {} |-> 0]

\* d[k] = v
Put(d, k, v) == [x \in (DOMAIN d) \cup {k} |-> IF x = k THEN v ELSE d[x]]

\* ------------------------------------------------------------ ToolAggregator

\* a step 1 that takes the tools of a provider whose list_tools() raised
CollectedDespiteError(ret) == [p \in ProviderNames |-> ret[p].tools]

\* step 1: the tools of a provider, [] when list_tools() raised
Collected(ret) == [p \in ProviderNames |-> IF ret[p].ok THEN ret[p].tools ELSE <<>>]

\* step 2: tool_name_counts[name]
ToolNameCount(pt, n) == Cardinality({<<p, i>> \in ProviderNames \X (1..MaxTools) :
                                        i <= Len(pt[p]) /\ pt[p][i] = n})

\* step 2: {name for name, count in tool_name_counts.items() if count > 1}
ConflictSet(pt) == {n \in NatNames : ToolNameCount(pt, n) > 1}

\* step 3: the enriched tool built for one tool of one provider
EnrichedTool(p, n, cs) ==
  IF n \in cs
    THEN [name |-> NamespacedName(p, n), provider |-> p, namespace_reason |-> "conflict"]
    ELSE [name |-> n, provider |-> p, namespace_reason |-> "None"]

\* step 3: the enriched tools of one provider, in the order of its list
EnrichedOf(p, pt, cs) == [i \in 1..Len(pt[p]) |-> EnrichedTool(p, pt[p][i], cs)]

\* step 3: the aggregated list, providers in the order of self.providers
RECURSIVE AggregatedFrom(_, _, _)
AggregatedFrom(k, pt, cs) ==
  IF k > Len(ProviderList) THEN <<>>
  ELSE EnrichedOf(ProviderList[k], pt, cs) \o AggregatedFrom(k + 1, pt, cs)

\* step 3: self._tool_cache[namespaced_name] = enriched_tool, one entry after the other
RECURSIVE UpdateToolCache(_, _)
UpdateToolCache(cache, tools) ==
  IF tools = <<>> THEN cache
  ELSE UpdateToolCache(Put(cache, Head(tools).name, Head(tools)), Tail(tools))

\* step 3: self._provider_map[namespaced_name] = provider_name, one entry after the other
RECURSIVE UpdateProviderMap(_, _)
UpdateProviderMap(pm, tools) ==
  IF tools = <<>> THEN pm
  ELSE UpdateProviderMap(Put(pm, Head(tools).name, Head(tools).provider), Tail(tools))

\* ToolAggregator.aggregate_tools(); ret[p] is what p.list_tools() does in this call
AggregateTools ==
  /\ aggCalls < MaxAggCalls
  /\ \E ret \in [ProviderNames -> ListToolsReturns] :
       LET pt == Collected(ret)
           cs == ConflictSet(pt)
           agg == AggregatedFrom(1, pt, cs)
       IN /\ provider_tools' = pt
          /\ conflicts' = cs
          /\ aggregated_tools' = agg
          /\ tool_cache' = UpdateToolCache(tool_cache, agg)
          /\ provider_map' = UpdateProviderMap(provider_map, agg)
          /\ list_tools_ret' = ret
  /\ aggCalls' = aggCalls + 1
  /\ route' = NoRoute
  /\ rpc_response' = NoRpcResponse
  /\ catOp' = "tools"
  /\ UNCHANGED <<routerProviders, list_resources_ret, aggregated_resources, list_prompts_ret,
                 aggregated_prompts, resRoute, trVars, gwVars, periVars>>

\* ToolAggregator.get_provider_for_tool(): the provider, or the error raised
GetProviderForTool(n) ==
  IF n \in DOMAIN provider_map THEN [kind |-> "ok", provider |-> provider_map[n]]
  ELSE IF n \in conflicts THEN [kind |-> "ValueError_ambiguous", provider |-> "None"]
  ELSE [kind |-> "KeyError", provider |-> "None"]

\* ---------------------------------------------------------------- ToolRouter

\* ToolRouter._parse_tool_name(): (provider_name, actual_tool_name) or the error raised
ParseToolName(n) ==
  LET g == GetProviderForTool(n) IN
  IF HasColon(n)
    THEN IF g.kind = "ok"
           THEN IF PName(g.provider) # SplitName(n)[1]
                  THEN [kind |-> "ValueError_mismatch", provider_name |-> <<>>, actual |-> <<>>]
                  ELSE [kind |-> "ok", provider_name |-> SplitName(n)[1], actual |-> SplitName(n)[2]]
         ELSE IF g.kind = "KeyError"
           THEN [kind |-> "ValueError_not_found", provider_name |-> <<>>, actual |-> <<>>]
         ELSE [kind |-> "ValueError_ambiguous", provider_name |-> <<>>, actual |-> <<>>]
    ELSE IF g.kind = "ok"
           THEN [kind |-> "ok", provider_name |-> PName(g.provider), actual |-> n]
         ELSE IF g.kind = "KeyError"
           THEN [kind |-> "ValueError_not_found", provider_name |-> <<>>, actual |-> <<>>]
         ELSE [kind |-> "ValueError_ambiguous", provider_name |-> <<>>, actual |-> <<>>]

\* what provider p answers to call_tool(name, arguments) when it does not raise
ToolResult(p, n, a) == [content |-> <<p, n, a>>]

\* MCPGateway.handle_tools_call(): the result, or the exception raised, for what
\* route_tool_call() did; raised is the class of the exception call_tool() raised
HandleToolsCall(routed, raised) ==
  IF routed = "ok" THEN [kind |-> "result", exc |-> "None"]
  ELSE IF routed \in {"ValueError_ambiguous", "ValueError_not_found", "ValueError_mismatch"}
    THEN [kind |-> "raised", exc |-> "ProtocolError"]
  ELSE IF routed = "RuntimeError_unavailable"
    THEN [kind |-> "raised", exc |-> "ProviderError"]
  ELSE IF raised = "ValueError" THEN [kind |-> "raised", exc |-> "ProtocolError"]
  ELSE IF raised = "RuntimeError" THEN [kind |-> "raised", exc |-> "ProviderError"]
  ELSE [kind |-> "raised", exc |-> raised]

\* StdioMCPServer.handle_request(): the response for what the handler did
HandleRequest(h) ==
  IF h.kind = "result"
    THEN [kind |-> "result", code |-> 0, data_type |-> "None"]
    ELSE [kind |-> "error", code |-> ServerErrorCode, data_type |-> h.exc]

\* a tools/call request: StdioMCPServer.handle_request, MCPGateway.handle_tools_call and
\* ToolRouter.route_tool_call(tool_name, arguments); raises is what the provider's
\* call_tool() does
RouteToolCall ==
  /\ aggCalls > 0
  /\ route.outcome = "none"
  /\ \E n \in RouteNames, a \in Args, raises \in RaiseChoices :
       LET parsed == ParseToolName(n) IN
       IF parsed.kind # "ok"
         THEN /\ raises = "None"
              /\ route' = [tool_name |-> n, arguments |-> a, outcome |-> parsed.kind,
                           calls |-> <<>>, result |-> NoResult]
              /\ rpc_response' = HandleRequest(HandleToolsCall(parsed.kind, raises))
       ELSE IF \A p \in routerProviders : PName(p) # parsed.provider_name
         THEN /\ raises = "None"
              /\ route' = [tool_name |-> n, arguments |-> a, outcome |-> "RuntimeError_unavailable",
                           calls |-> <<>>, result |-> NoResult]
              /\ rpc_response' = HandleRequest(HandleToolsCall("RuntimeError_unavailable", raises))
       ELSE LET p == CHOOSE q \in routerProviders : PName(q) = parsed.provider_name
                call == [provider |-> p, name |-> parsed.actual, arguments |-> a]
                how == IF raises # "None" THEN "provider_raised" ELSE "ok"
            IN /\ route' = [tool_name |-> n, arguments |-> a,
                            outcome |-> how,
                            calls |-> <<call>>,
                            result |-> IF raises # "None" THEN NoResult
                                       ELSE ToolResult(p, parsed.actual, a)]
               /\ rpc_response' = HandleRequest(HandleToolsCall(how, raises))
  /\ UNCHANGED <<tool_cache, provider_map, conflicts, provider_tools, aggregated_tools, aggCalls,
                 routerProviders, catVars, trVars, gwVars, periVars>>

\* ------------------------------------------------- claims on the aggregator

\* the elements of a list
Range(f) == {f[i] : i \in 1..Len(f)}

\* number of tools returned by the providers that come before the k-th one
RECURSIVE ToolsBefore(_)
ToolsBefore(k) == IF k <= 1 THEN 0 ELSE ToolsBefore(k - 1) + Len(provider_tools[ProviderList[k - 1]])

\* the providers that returned a tool named n in the last aggregate_tools()
Owners(n) == {p \in ProviderNames : n \in Range(provider_tools[p])}

\* the name under which the code publishes tool n of provider p
PublishedName(p, n) == IF n \in conflicts THEN NamespacedName(p, n) ELSE n

\* C1: after aggregate_tools every tool t returned by a provider P has exactly one entry
\* in the aggregated list, named t.name iff no other provider returned a tool named
\* t.name, and 'P.name:t.name' otherwise.
C1_OnePublishedNamePerTool ==
  aggCalls > 0 =>
    /\ Len(aggregated_tools) = ToolsBefore(Len(ProviderList) + 1)
    /\ \A k \in 1..Len(ProviderList) : \A i \in 1..Len(provider_tools[ProviderList[k]]) :
         LET p == ProviderList[k]
             t == provider_tools[p][i]
             e == aggregated_tools[ToolsBefore(k) + i]
         IN /\ e.provider = p
            /\ e.name = IF Owners(t) \subseteq {p} THEN t ELSE NamespacedName(p, t)

\* C2: after any sequence of aggregate_tools calls every key of the tool map is a key of
\* the provider map, and no name of the current conflict set is a key of either map.
C2_MapsAgreeAndNoNaturalConflictKey ==
  /\ DOMAIN tool_cache \subseteq DOMAIN provider_map
  /\ \A n \in conflicts : n \notin DOMAIN tool_cache /\ n \notin DOMAIN provider_map

\* C3: route_tool_call of the published name of a tool whose natural name has no ':'
\* calls call_tool exactly once, on the owning provider, with the natural name and the
\* same arguments, and returns the provider's result unchanged.
C3_RoutePublishedReachesOwner ==
  \A p \in ProviderNames : \A t \in Range(provider_tools[p]) :
    (/\ ~HasColon(t)
     /\ route.outcome # "none"
     /\ route.tool_name = PublishedName(p, t))
    => /\ route.calls = <<[provider |-> p, name |-> t, arguments |-> route.arguments]>>
       /\ route.outcome \in {"ok", "provider_raised"}
       /\ route.outcome = "ok" => route.result = ToolResult(p, t, route.arguments)

\* C4: after every aggregate_tools call a natural name returned by more than one
\* provider is ambiguous for get_provider_for_tool and for route_tool_call, which calls
\* no provider; a name returned by one provider only resolves to that provider.
C4_AmbiguousIffCollision ==
  aggCalls > 0 =>
    \A n \in NatNames :
      /\ Cardinality(Owners(n)) > 1 =>
           /\ GetProviderForTool(n).kind = "ValueError_ambiguous"
           /\ (route.outcome # "none" /\ route.tool_name = n) =>
                (route.outcome = "ValueError_ambiguous" /\ route.calls = <<>>)
      /\ Cardinality(Owners(n)) = 1 =>
           /\ GetProviderForTool(n).kind = "ok"
           /\ {GetProviderForTool(n).provider} = Owners(n)

\* the part of a name before its first ':' and the part after it
ProvPart(n) == SubSeq(n, 1, (CHOOSE i \in 1..Len(n) : n[i] = Colon /\ \A j \in 1..(i-1) : n[j] # Colon) - 1)
LocalPart(n) == SubSeq(n, Len(ProvPart(n)) + 2, Len(n))

\* C21: route_tool_call of a name with ':' calls no provider other than the one named
\* before the first ':', and calls it with the part after the first ':'; when the
\* aggregator maps the full name to another provider the call fails with the mismatch
\* error and no provider is called.
C21_NamespacedCallStaysWithPrefix ==
  (route.outcome # "none" /\ HasColon(route.tool_name)) =>
    LET n == route.tool_name IN
    /\ \A i \in 1..Len(route.calls) :
         /\ PName(route.calls[i].provider) = ProvPart(n)
         /\ route.calls[i].name = LocalPart(n)
    /\ (n \in DOMAIN provider_map /\ PName(provider_map[n]) # ProvPart(n)) =>
         /\ route.outcome = "ValueError_mismatch"
         /\ route.calls = <<>>
    /\ (n \in DOMAIN provider_map /\ PName(provider_map[n]) = ProvPart(n)
        /\ provider_map[n] \in routerProviders) =>
         Len(route.calls) = 1

\* C21 witness: a name that the aggregator maps to another provider than the one named
\* before its first ':' was routed and refused
C21_Witness ==
  /\ route.outcome = "ValueError_mismatch"
  /\ HasColon(route.tool_name)
  /\ route.tool_name \in DOMAIN provider_map
  /\ PName(provider_map[route.tool_name]) # ProvPart(route.tool_name)

\* no provider returned a tool whose natural name contains ':' in the last aggregate_tools()
PlainNamesOnly == \A q \in ProviderNames : \A u \in Range(provider_tools[q]) : ~HasColon(u)

\* C39: for a tool t that provider p returned in the last aggregate_tools() and that is
\* published under its natural name, route_tool_call of 'p:t' fails with the not-found
\* error and calls no provider, and route_tool_call of t calls p (when the router holds p);
\* stated for catalogs whose natural names contain no ':'.
C39_NamespacedFormOnlyForCollisions ==
  (aggCalls > 0 /\ route.outcome # "none" /\ PlainNamesOnly) =>
    \A p \in ProviderNames : \A t \in Range(provider_tools[p]) \ conflicts :
      /\ route.tool_name = NamespacedName(p, t) =>
           /\ route.outcome = "ValueError_not_found"
           /\ route.calls = <<>>
      /\ (route.tool_name = t /\ p \in routerProviders) =>
           /\ Len(route.calls) = 1
           /\ route.calls[1].provider = p
           /\ route.calls[1].name = t

\* the names under which the last aggregate_tools() published tools
PublishedNames == {aggregated_tools[i].name : i \in 1..Len(aggregated_tools)}

\* C18: a tools/call for a tool name that more than one provider returned is answered
\* with an error response of code -32000 whose data.type is "ambiguous_tool".
C18_AmbiguousToolErrorData ==
  (route.outcome # "none" /\ Cardinality(Owners(route.tool_name)) > 1) =>
    /\ rpc_response.kind = "error"
    /\ rpc_response.code = ServerErrorCode
    /\ rpc_response.data_type = "ambiguous_tool"

\* C19: a tools/call routed to a provider that is not in the gateway's provider map calls
\* no provider and is answered with an error response of code -32000 whose data.type is
\* "provider_unavailable".
C19_UnavailableProviderErrorData ==
  (route.outcome # "none"
   /\ ParseToolName(route.tool_name).kind = "ok"
   /\ \A p \in routerProviders : PName(p) # ParseToolName(route.tool_name).provider_name) =>
    /\ route.calls = <<>>
    /\ rpc_response.kind = "error"
    /\ rpc_response.code = ServerErrorCode
    /\ rpc_response.data_type = "provider_unavailable"

\* C20: route_tool_call for a name that is neither a published name nor in the conflict
\* set fails with the not-found error and calls call_tool on no provider.
C20_UnknownNameNotFound ==
  (route.outcome # "none"
   /\ route.tool_name \notin PublishedNames
   /\ route.tool_name \notin conflicts) =>
    /\ route.outcome = "ValueError_not_found"
    /\ route.calls = <<>>

\* the aggregator and router as constructed
AggIdle ==
  /\ tool_cache = EmptyMap
  /\ provider_map = EmptyMap
  /\ conflicts = {}
  /\ provider_tools = [p \in ProviderNames |-> <<>>]
  /\ aggregated_tools = <<>>
  /\ aggCalls = 0
  /\ routerProviders = ProviderNames
  /\ route = NoRoute
  /\ rpc_response = NoRpcResponse
  /\ list_tools_ret = [p \in ProviderNames |-> [ok |-> TRUE, tools |-> <<>>]]
  /\ list_resources_ret = [p \in ProviderNames |-> [ok |-> TRUE, uris |-> <<>>]]
  /\ aggregated_resources = <<>>
  /\ list_prompts_ret = [p \in ProviderNames |-> [ok |-> TRUE, prompts |-> <<>>]]
  /\ aggregated_prompts = <<>>
  /\ resRoute = NoResRoute
  /\ catOp = "none"

\* MCPGateway.__init__ before any start(): no provider, no aggregator
NoProviderList == [built |-> FALSE, over |-> {}]

\* a cache that is None
NoCache == [gen |-> 0, over |-> {}]

\* nothing read yet
NoSeen == [tools |-> 0, resources |-> 0, prompts |-> 0, tool_map |-> 0]

\* the fields of a gateway that was built and never started
GwFresh ==
  /\ providers = EmptyMap
  /\ startPc = 0
  /\ startCalls = 0
  /\ attempts = <<>>
  /\ mapAtCall = {}
  /\ startResult = "none"
  /\ provider_list = NoProviderList
  /\ lastOp = "none"
  /\ everSucceeded = FALSE
  /\ stopPc = "idle"
  /\ stopRemaining = {}
  /\ disconnectLog = <<>>
  /\ mapAtStop = {}
  /\ opBeforeStop = "none"
  /\ stopResult = "none"
  /\ refreshPc = 0
  /\ tool_map_gen = 0
  /\ gw_tools_cache = NoCache
  /\ gw_resources_cache = NoCache
  /\ gw_prompts_cache = NoCache
  /\ seen = NoSeen

\* a gateway that was built and never started
GwIdle ==
  /\ enabled_providers = <<>>
  /\ registered = {}
  /\ GwFresh

\* ------------------------------------------------------------ idle MCPProvider

\* no operation called yet
NoOp == [op |-> "none", connected |-> FALSE, outcome |-> "none", sent |-> FALSE]

\* no health_check() called yet
NoHealthCheck == [outcome |-> "none", round_trip |-> "none", was_connected |-> FALSE,
                  alone |-> TRUE]

\* the send_request calls of a provider: HcSlot is that of health_check()
OpCalls == 1..MaxOps
HcSlot == 0
OpSlots == {HcSlot} \cup OpCalls

\* no transport object: self.transport = None
NoTransport == 0

\* no send_request in progress. pc is "at_lock" before 'async with self._request_lock' is
\* entered, "draining" in stdin.drain() with the lock held, "waiting" in wait_for;
\* connected is provider.connected at the call; tr is the transport whose lock the call
\* waits for or holds; dropped says, while the call waits for the lock, that a
\* disconnect() of that transport has ended: its process is None
NoOpCall == [pc |-> "idle", op |-> "none", connected |-> FALSE, tr |-> NoTransport,
             dropped |-> FALSE]

\* no call in progress; mine says whether the client the call holds is still the client
\* of the provider, alone whether no connect() or disconnect() ran during the call, tr
\* (of a disconnect()) which transport it closes
NoCall == [pc |-> "idle", mine |-> FALSE, was_connected |-> FALSE, alone |-> TRUE,
           tr |-> NoTransport]

\* MCPProvider.__init__()
ProvIdle ==
  /\ p_client = FALSE
  /\ p_connected = FALSE
  /\ t_connected = FALSE
  /\ p_history = "never"
  /\ p_op = NoOp
  /\ hc = NoHealthCheck
  /\ conn_call = NoCall
  /\ disc_call = NoCall
  /\ hc_call = NoCall
  /\ p_ops = [k \in OpSlots |-> NoOpCall]
  /\ lock_waiters = <<>>
  /\ t_id = NoTransport
  /\ t_made = 0

\* StdioMCPServer after start() and before its first line, run_server in its while loop
SrvIdle ==
  /\ srv_state = "reading"
  /\ srv_request = "unbound"
  /\ srv_log = <<>>
  /\ srv_reads = 0
  /\ srv_inflight = {}
  /\ srv_running = TRUE
  /\ serve_pc = "waiting"

\* the three caches
ListKinds == {"tools", "resources", "prompts"}

\* no list handler called yet
NoListCall == [handler |-> "none", was_set |-> FALSE, refreshed |-> FALSE, calls |-> 0,
               before |-> [k \in ListKinds |-> "None"], after |-> [k \in ListKinds |-> "None"],
               returned |-> "None", done |-> FALSE]

\* MCPGateway.__init__(): no aggregator, every cache None
LstIdle ==
  /\ l_aggregators = FALSE
  /\ l_cache = [k \in ListKinds |-> "None"]
  /\ l_start_pc = 0
  /\ l_handler = [name |-> "none", pc |-> 0]
  /\ l_last = NoListCall

\* no disconnect() call yet
NoDisconnect == [called |-> FALSE, history |-> "never", handle |-> FALSE, child |-> "none",
                 steps |-> <<>>, raised |-> FALSE, connected_after |-> FALSE,
                 task_after |-> "None", handle_after |-> FALSE, child_after |-> "none"]

\* no disconnect() in progress; mine says whether the process the call waits on is still
\* the process of the transport
NoDisconnectCall == [pc |-> "idle", steps |-> <<>>, history |-> "never", handle |-> FALSE,
                     child |-> "none", mine |-> FALSE, task_done |-> FALSE]

\* Transport.__init__() and the constructors of the two transports: not connected, no
\* listen task, no process and no client
LifeIdle ==
  /\ tl_kind = "stdio"
  /\ tl_connected = FALSE
  /\ tl_listen_task = "None"
  /\ tl_handle = FALSE
  /\ tl_child = "none"
  /\ tl_history = "never"
  /\ tl_disconnects = 0
  /\ tl_last = NoDisconnect
  /\ tl_conn = "idle"
  /\ tl_disc = NoDisconnectCall

\* connection_timeout of a GlobalConfig built without arguments
DefaultConnectionTimeout == 30

\* request_timeout of a GlobalConfig built without arguments
DefaultRequestTimeout == 60

\* GlobalConfig()
DefaultGlobal == [logging_level |-> "INFO", logging_format |-> "json",
                  connection_timeout |-> DefaultConnectionTimeout,
                  request_timeout |-> DefaultRequestTimeout]

\* Config()
DefaultConfig == [enabled_providers |-> <<>>, provider_settings |-> EmptyMap,
                  global_settings |-> DefaultGlobal]

\* no get_provider_config() called yet
NoGet == [name |-> "none", env |-> EmptyMap, returned |-> EmptyMap, before |-> DefaultConfig,
          after |-> DefaultConfig]

\* a default Config, no file written and nothing loaded
CfgIdle ==
  /\ cfg = DefaultConfig
  /\ cfg_file_exists = FALSE
  /\ cfg_file = EmptyMap
  /\ cfg_loaded = DefaultConfig
  /\ cfg_phase = "editing"
  /\ cfg_got = NoGet

PeriIdle == ProvIdle /\ SrvIdle /\ LstIdle /\ LifeIdle /\ CfgIdle

\* ------------------------------------------- MCPClient, transports: values

Calls == 1..MaxCalls

\* the 8 hex digits of uuid4 in a request id
Hex == {"a"}

\* f"req-{self._request_counter}-{uuid.uuid4().hex[:8]}"
RequestIdOf(counter, h) == <<"req", counter, h>>

\* MCPClient._generate_request_id(): the new counter and the id
GenerateRequestId(counter, h) == [counter |-> counter + 1, id |-> RequestIdOf(counter + 1, h)]

\* an id that is a JSON number, as a backend may put in a message
IntId == <<"int", 1>>

\* a message without an "id" member
AbsentId == <<"absent", 0>>

\* str(id): a string stays what it is, a number becomes its digits
Str(id) == IF id[1] = "int" THEN <<"digits", id[2]>> ELSE id

\* the timeout argument of send_request: None or a number of seconds
TimeoutArgs == {[given |-> FALSE, secs |-> 0], [given |-> TRUE, secs |-> 0],
                [given |-> TRUE, secs |-> 5]}

\* timeout or 60.0
TimeoutDuration(t) == IF t.given /\ t.secs # 0 THEN t.secs ELSE DefaultTimeout

\* the ids of the requests of this client
OwnIds == {RequestIdOf(n, h) : n \in 1..MaxCalls, h \in Hex}

\* ids no request of this client has: another string, and a number
OtherIds == {RequestIdOf(1, "z"), IntId}

\* the ids a backend may put in a message
MsgIds == OwnIds \cup OtherIds

\* a line that json.loads turns into a value that is no dict and supports no "in" test: a
\* number, true, false or null
NotAnObject == [json |-> "number"]

\* whether listen() yielded a dict
IsObject(m) == "id" \in DOMAIN m

\* the messages the reader may get from listen(): JSON objects with or without the
\* members "id", "result", "error", and a JSON value that is no object; valid says whether
\* JSONRPCResponse(**message) accepts it
Messages ==
  {NotAnObject} \cup
  {[id |-> i, result |-> TRUE, error |-> FALSE, valid |-> v] : i \in OwnIds, v \in BOOLEAN}
  \cup {[id |-> i, result |-> TRUE, error |-> FALSE, valid |-> TRUE] : i \in OtherIds}
  \cup {[id |-> i, result |-> FALSE, error |-> TRUE, valid |-> TRUE] : i \in {RequestIdOf(1, "a"), IntId}}
  \cup {[id |-> i, result |-> FALSE, error |-> FALSE, valid |-> FALSE] : i \in {RequestIdOf(1, "a"), AbsentId}}
  \cup {[id |-> AbsentId, result |-> FALSE, error |-> TRUE, valid |-> FALSE]}

NoResponse == [id |-> AbsentId]

NoFuture == [state |-> "none", response |-> NoResponse]

NoOutcome == [kind |-> "none", response |-> NoResponse, after |-> 0]

\* JSONRPCResponse(**message)
ResponseOf(m) == [id |-> m.id]

\* a future that never says it is done
FutureNeverDone(f) == FALSE

\* future.done()
FutureDone(f) == f.state # "pending"

\* d without key k: self._pending_requests.pop(request_id, None)
Pop(d, k) == [x \in (DOMAIN d) \ {k} |-> d[x]]

\* a finally clause that leaves the entry in the table
FinallyWithoutPop(pend, id) == pend

\* the finally clause of send_request
Finally(pend, id) == Pop(pend, Str(id))

\* a lookup that takes any waiter of the table
PendingGetAny(pend, k) == IF DOMAIN pend # {} THEN pend[CHOOSE x \in DOMAIN pend : TRUE] ELSE 0

\* self._pending_requests.get(request_id): the call whose future is found, 0 for None
PendingGet(pend, k) == IF k \in DOMAIN pend THEN pend[k] ELSE 0

\* the calls that are inside send_request
InProgress(c) == pc[c] \in {"locking", "writing", "waiting", "timedout", "cancelling"}

\* --------------------------------------------- MCPClient, transports: steps

\* a return that runs the finally clause on the success path only
ReturnPopsOnReplyOnly(c, k, resp, after) ==
  /\ pc' = [pc EXCEPT ![c] = "done"]
  /\ outcome' = [outcome EXCEPT ![c] =
                   [kind |-> k, response |-> resp, after |-> after]]
  /\ pending' = IF k = "reply" THEN Finally(pending, reqId[c]) ELSE pending

\* a call ends: the finally clause runs and the call returns resp or raises k; a
\* TimeoutError says "timed out after {timeout_duration}s"
Return(c, k, resp, after) ==
  /\ pc' = [pc EXCEPT ![c] = "done"]
  /\ outcome' = [outcome EXCEPT ![c] =
                   [kind |-> k, response |-> resp, after |-> after]]
  /\ pending' = Finally(pending, reqId[c])

\* MCPClient._send_request builds the request and enters Transport.send_request, which
\* raises when not connected and registers a future otherwise
SendRequest(c) ==
  /\ pc[c] = "idle"
  /\ \E h \in Hex :
       LET g == GenerateRequestId(request_counter, h) IN
       /\ request_counter' = g.counter
       /\ reqId' = [reqId EXCEPT ![c] = g.id]
       /\ IF ~connected
            THEN /\ pc' = [pc EXCEPT ![c] = "done"]
                 /\ outcome' = [outcome EXCEPT ![c] = [kind |-> "TransportError", response |-> NoResponse, after |-> 0]]
                 /\ UNCHANGED <<pending, fut>>
            ELSE /\ pc' = [pc EXCEPT ![c] = IF kind = "stdio" THEN "locking" ELSE "writing"]
                 /\ pending' = Put(pending, Str(g.id), c)
                 /\ fut' = [fut EXCEPT ![c] = [state |-> "pending", response |-> NoResponse]]
                 /\ UNCHANGED outcome
  /\ UNCHANGED <<kind, connected, listening, lock, completions,
                 lastEffect, aggVars, gwVars, periVars>>

\* stdio: async with self._request_lock, then stdin.write(); the write may raise
AcquireAndWrite(c) ==
  /\ kind = "stdio"
  /\ pc[c] = "locking"
  /\ lock = 0
  /\ \E ok \in BOOLEAN :
       IF ok THEN /\ lock' = c
                  /\ pc' = [pc EXCEPT ![c] = "writing"]
                  /\ UNCHANGED <<outcome, pending>>
             ELSE /\ Return(c, "TransportError", NoResponse, 0)
                  /\ UNCHANGED lock
  /\ UNCHANGED <<kind, connected, listening, request_counter, reqId, fut,
                 completions, lastEffect, aggVars, gwVars, periVars>>

\* stdio: await stdin.drain() returns or raises; the lock is released; wait_for starts
DrainReturns(c) ==
  /\ kind = "stdio"
  /\ pc[c] = "writing"
  /\ lock' = 0
  /\ \E ok \in BOOLEAN :
       IF ok THEN /\ pc' = [pc EXCEPT ![c] = "waiting"]
                  /\ UNCHANGED <<outcome, pending>>
             ELSE /\ Return(c, "TransportError", NoResponse, 0)
  /\ UNCHANGED <<kind, connected, listening, request_counter, reqId, fut,
                 completions, lastEffect, aggVars, gwVars, periVars>>

\* sse: await self.client.post() returns a status below 400, or a status of 400 and more,
\* or raises httpx.HTTPError (the client has a 30 s timeout); wait_for starts
PostReturns(c) ==
  /\ kind = "sse"
  /\ pc[c] = "writing"
  /\ \E ok \in BOOLEAN :
       IF ok THEN /\ pc' = [pc EXCEPT ![c] = "waiting"]
                  /\ UNCHANGED <<outcome, pending>>
             ELSE /\ Return(c, "TransportError", NoResponse, 0)
  /\ UNCHANGED <<kind, connected, listening, request_counter, reqId, fut, lock,
                 completions, lastEffect, aggVars, gwVars, periVars>>

\* wait_for returns the result of the future or raises the exception set on it
FutureResolves(c) ==
  /\ pc[c] = "waiting"
  /\ fut[c].state \in {"result", "exception"}
  /\ IF fut[c].state = "result"
       THEN Return(c, "reply", fut[c].response, 0)
       ELSE Return(c, "TransportError", NoResponse, 0)
  /\ UNCHANGED <<kind, connected, listening, request_counter, reqId, fut,
                 lock, completions, lastEffect, aggVars, gwVars, periVars>>

\* timeout_duration seconds have passed since wait_for started and its timer fires: a
\* future that is not done is cancelled
TimerFires(c) ==
  /\ pc[c] = "waiting"
  /\ ~FutureDone(fut[c])
  /\ fut' = [fut EXCEPT ![c].state = "cancelled"]
  /\ pc' = [pc EXCEPT ![c] = "timedout"]
  /\ UNCHANGED <<kind, connected, listening, request_counter, reqId,
                 pending, lock, outcome, completions, lastEffect, aggVars, gwVars, periVars>>

\* asyncio.TimeoutError reaches send_request, which raises
\* TimeoutError(f"Request {request_id} timed out after {timeout_duration}s"); t is the
\* timeout argument this call was given, which nothing reads before this step
TimeoutRaised(c) ==
  /\ pc[c] = "timedout"
  /\ \E t \in TimeoutArgs : Return(c, "TimeoutError", NoResponse, TimeoutDuration(t))
  /\ UNCHANGED <<kind, connected, listening, request_counter, reqId, fut,
                 lock, completions, lastEffect, aggVars, gwVars, periVars>>

\* the task of the caller is cancelled while it is suspended in send_request. At the lock,
\* in drain() or in post() CancelledError leaves through the finally clause and nothing
\* touches the future. In wait_for with the future done, wait_for returns the result of the
\* future (or raises its exception) and the cancellation is lost; with the future not done,
\* wait_for cancels it and awaits once more before it raises. After the timeout, in the
\* await that follows the cancel of the future, CancelledError is raised at once
CallerCancelled(c) ==
  /\ pc[c] \in {"locking", "writing", "waiting", "timedout"}
  /\ IF pc[c] = "waiting" /\ ~FutureDone(fut[c])
       THEN /\ pc' = [pc EXCEPT ![c] = "cancelling"]
            /\ fut' = [fut EXCEPT ![c].state = "cancelled"]
            /\ UNCHANGED <<outcome, pending, lock>>
     ELSE IF pc[c] = "waiting"
       THEN /\ IF fut[c].state = "result"
                 THEN Return(c, "reply", fut[c].response, 0)
                 ELSE Return(c, "TransportError", NoResponse, 0)
            /\ UNCHANGED <<fut, lock>>
     ELSE /\ Return(c, "CancelledError", NoResponse, 0)
          /\ lock' = IF lock = c THEN 0 ELSE lock
          /\ UNCHANGED fut
  /\ UNCHANGED <<kind, connected, listening, request_counter, reqId,
                 completions, lastEffect, aggVars, gwVars, periVars>>

\* the await that follows the cancel of the future returns: wait_for raises
\* CancelledError, the finally clause runs
CancelRaised(c) ==
  /\ pc[c] = "cancelling"
  /\ Return(c, "CancelledError", NoResponse, 0)
  /\ UNCHANGED <<kind, connected, listening, request_counter, reqId, fut,
                 lock, completions, lastEffect, aggVars, gwVars, periVars>>

\* a reader that leaves the waiter alone when the message is no well-formed response
CompletionOfValidOnly(m) ==
  IF m.valid THEN [state |-> "result", response |-> ResponseOf(m)]
  ELSE [state |-> "pending", response |-> NoResponse]

\* what _listen_loop sets on the future found for message m: the JSONRPCResponse built
\* from it, or TransportError("Invalid response: ...") when JSONRPCResponse(**message) raises
Completion(m) ==
  IF m.valid THEN [state |-> "result", response |-> ResponseOf(m)]
  ELSE [state |-> "exception", response |-> NoResponse]

\* the test of _listen_loop that takes a message for a response
LooksLikeResponse(m) ==
  IF kind = "stdio"
    THEN m.id # AbsentId /\ (m.result \/ m.error)
    ELSE (m.id # AbsentId /\ m.result) \/ m.error

\* one iteration of _listen_loop: listen() yields message m of the backend and the loop
\* body handles it
ListenLoopStep ==
  /\ listening
  /\ \E m \in Messages :
       IF ~IsObject(m)
         THEN \* "id" in message raises TypeError, which ends the loop
              /\ lastEffect' = "crashed"
              /\ listening' = FALSE
              /\ UNCHANGED <<fut, completions>>
       ELSE IF ~LooksLikeResponse(m)
         THEN /\ lastEffect' = "ignored"
              /\ UNCHANGED <<fut, completions, listening>>
       ELSE IF m.id = AbsentId
         THEN \* message["id"] raises KeyError, which ends the loop
              /\ lastEffect' = "crashed"
              /\ listening' = FALSE
              /\ UNCHANGED <<fut, completions>>
       ELSE IF PendingGet(pending, Str(m.id)) = 0
         THEN /\ lastEffect' = IF \E c \in Calls : pc[c] = "done" /\ Str(reqId[c]) = Str(m.id)
                                 THEN "dropped_late" ELSE "dropped_unknown"
              /\ UNCHANGED <<fut, completions, listening>>
       ELSE LET c == PendingGet(pending, Str(m.id)) IN
            IF FutureDone(fut[c])
              THEN /\ lastEffect' = "dropped_done"
                   /\ UNCHANGED <<fut, completions, listening>>
              ELSE /\ fut' = [fut EXCEPT ![c] = Completion(m)]
                   /\ completions' = [completions EXCEPT ![c] = @ + 1]
                   /\ lastEffect' = IF m.valid THEN "completed" ELSE "failed"
                   /\ UNCHANGED listening
  /\ UNCHANGED <<kind, connected, request_counter, pc, reqId,
                 pending, lock, outcome, aggVars, gwVars, periVars>>

\* the stream of the backend ends: readline() returns b"" (the process closed its
\* stdout) or the SSE event source is exhausted, listen() stops and _listen_loop returns
EndOfStream ==
  /\ listening
  /\ listening' = FALSE
  /\ lastEffect' = "eof"
  /\ UNCHANGED <<kind, connected, request_counter, pc, reqId, fut,
                 pending, lock, outcome, completions, aggVars, gwVars, periVars>>

\* a disconnect() that fails every outstanding waiter and empties the table
DisconnectFailingWaiters ==
  /\ connected
  /\ connected' = FALSE
  /\ listening' = FALSE
  /\ fut' = [c \in Calls |-> IF fut[c].state = "pending"
                               THEN [state |-> "exception", response |-> NoResponse]
                               ELSE fut[c]]
  /\ pending' = EmptyMap
  /\ UNCHANGED <<kind, request_counter, pc, reqId,
                 lock, outcome, completions, lastEffect, aggVars, gwVars, periVars>>

\* Transport.disconnect(): connected = False and the listen task is cancelled
Disconnect ==
  /\ connected
  /\ connected' = FALSE
  /\ listening' = FALSE
  /\ UNCHANGED <<kind, request_counter, pc, reqId, fut,
                 pending, lock, outcome, completions, lastEffect, aggVars, gwVars, periVars>>

\* a client and a transport on which nothing has been sent
TrIdle ==
  /\ kind = "stdio"
  /\ connected = TRUE
  /\ listening = TRUE
  /\ request_counter = 0
  /\ pc = [c \in Calls |-> "idle"]
  /\ reqId = [c \in Calls |-> AbsentId]
  /\ fut = [c \in Calls |-> NoFuture]
  /\ pending = EmptyMap
  /\ lock = 0
  /\ outcome = [c \in Calls |-> NoOutcome]
  /\ completions = [c \in Calls |-> 0]
  /\ lastEffect = "none"

\* a connected transport of either kind with its client
InitTr ==
  /\ kind \in {"stdio", "sse"}
  /\ connected = TRUE
  /\ listening = TRUE
  /\ request_counter = 0
  /\ pc = [c \in Calls |-> "idle"]
  /\ reqId = [c \in Calls |-> AbsentId]
  /\ fut = [c \in Calls |-> NoFuture]
  /\ pending = EmptyMap
  /\ lock = 0
  /\ outcome = [c \in Calls |-> NoOutcome]
  /\ completions = [c \in Calls |-> 0]
  /\ lastEffect = "none"
  /\ AggIdle
  /\ GwIdle
  /\ PeriIdle

NextTr ==
  \/ \E c \in Calls : SendRequest(c)
  \/ \E c \in Calls : AcquireAndWrite(c)
  \/ \E c \in Calls : DrainReturns(c)
  \/ \E c \in Calls : PostReturns(c)
  \/ \E c \in Calls : FutureResolves(c)
  \/ \E c \in Calls : TimerFires(c)
  \/ \E c \in Calls : TimeoutRaised(c)
  \/ \E c \in Calls : CallerCancelled(c)
  \/ \E c \in Calls : CancelRaised(c)
  \/ ListenLoopStep
  \/ EndOfStream
  \/ Disconnect

SpecTr == InitTr /\ [][NextTr]_vars


\* the steps that the event loop takes once they are possible: timers fire, resumed
\* tasks run, an HTTP POST ends within the 30 s timeout of the httpx client; a drain()
\* of the stdin pipe, the backend and the callers are under no such obligation
FairTr ==
  \A c \in Calls : /\ WF_vars(AcquireAndWrite(c))
                   /\ WF_vars(PostReturns(c))
                   /\ WF_vars(FutureResolves(c))
                   /\ WF_vars(TimerFires(c))
                   /\ WF_vars(TimeoutRaised(c))
                   /\ WF_vars(CancelRaised(c))

FairSpecTr == InitTr /\ [][NextTr]_vars /\ FairTr

\* ------------------------------------------------- claims on the transports

\* C5: when send_request has returned or raised, by any path, the pending table has no
\* entry for its request id; the entries are those of the calls still in progress.
C5_PendingOnlyWhileInProgress ==
  /\ \A c \in Calls : pc[c] = "done" => Str(reqId[c]) \notin DOMAIN pending
  /\ \A k \in DOMAIN pending : InProgress(pending[k]) /\ Str(reqId[pending[k]]) = k

\* a call has timed out and its entry is gone while another call still waits
C5_Witness ==
  \E c, d \in Calls : /\ outcome[c].kind = "TimeoutError"
                      /\ pc[d] = "waiting"
                      /\ DOMAIN pending = {Str(reqId[d])}

\* C6: each concurrent call ends with one outcome, each waiter is completed at most once
\* even when the backend repeats a reply, and the ids of one client are pairwise distinct.
C6_OneOutcomeOneCompletion ==
  /\ \A c \in Calls : completions[c] <= 1
  /\ \A c \in Calls : (pc[c] = "done") <=> (outcome[c].kind # "none")
  /\ \A c, d \in Calls : (c # d /\ pc[c] # "idle" /\ pc[d] # "idle") => reqId[c] # reqId[d]

\* with two calls in progress a repeated reply has been dropped
C6_Witness ==
  /\ lastEffect = "dropped_done"
  /\ \E c, d \in Calls : c # d /\ InProgress(c) /\ InProgress(d) /\ completions[c] = 1

\* C7: the response that send_request returns carries the id of the request sent, in
\* whatever order the backend answers the outstanding requests.
C7_ReplyIdIsRequestId ==
  \A c \in Calls : outcome[c].kind = "reply" => outcome[c].response.id = reqId[c]

\* the later request has got its reply while the earlier one still waits
C7_Witness ==
  \E c, d \in Calls : /\ outcome[c].kind = "reply"
                      /\ pc[d] = "waiting"
                      /\ reqId[d][2] < reqId[c][2]

\* a call that ended by timeout or by cancellation of the caller
EndedByTimeoutOrCancel(c) ==
  pc[c] = "done" /\ outcome[c].kind \in {"TimeoutError", "CancelledError"}

\* C8: a call that ends by timeout or cancellation has its entry removed before it
\* returns; a reply with its id that comes later completes no waiter, changes no
\* outcome, leaves the other requests as they are and does not stop the reader.
C8_LateReplyDropped ==
  /\ [](\A c \in Calls : EndedByTimeoutOrCancel(c) => Str(reqId[c]) \notin DOMAIN pending)
  /\ [][/\ \A c \in Calls : EndedByTimeoutOrCancel(c) =>
              /\ fut'[c] = fut[c]
              /\ completions'[c] = completions[c]
              /\ outcome'[c] = outcome[c]
        /\ (lastEffect' = "dropped_late" /\ lastEffect # "dropped_late") =>
              UNCHANGED <<fut, completions, outcome, pc, pending, listening>>]_vars

\* the reply of a timed out call has come and was dropped while another call waits
C8_Witness ==
  /\ lastEffect = "dropped_late"
  /\ listening
  /\ \E c, d \in Calls : /\ outcome[c].kind = "TimeoutError"
                         /\ completions[c] = 0
                         /\ pc[d] = "waiting"

\* what the reader notes for a message that is no reply to a pending request
NonReplyEffects == {"ignored", "dropped_unknown", "dropped_late", "crashed"}

\* C31: a message that is no reply to a pending request (no JSON object, a notification,
\* no id, neither result nor error, an unknown id) completes no waiter and leaves the
\* reader running, for the stdio and the SSE reader.
C31_NonReplyKeepsReaderRunning ==
  [][(ListenLoopStep /\ lastEffect' \in NonReplyEffects) =>
       (listening' /\ fut' = fut /\ completions' = completions)]_vars

\* the calls whose future the step changes
FuturesChanged == {c \in Calls : fut'[c] # fut[c]}

Outstanding(c) == pc[c] = "waiting" /\ fut[c].state = "pending"

\* C37 as stated: once the transport is disconnected, a call that is inside send_request
\* with its waiter not completed ends only with TimeoutError (or by the cancellation of
\* its caller).
C37_InFlightEndsOnlyByTimeout ==
  [][\A c \in Calls :
       (~connected /\ InProgress(c) /\ fut[c].state \in {"pending", "cancelled"} /\ pc'[c] = "done")
         => outcome'[c].kind \in {"TimeoutError", "CancelledError"}]_vars

\* C37: the end of the reader (disconnect(), end of stream) leaves every waiter and the
\* pending table as they are; with no reader a call that waits for its reply keeps its
\* waiter and its entry until its own timer fires, and then raises TimeoutError (or until
\* its caller is cancelled, and then raises CancelledError); a send_request called on a
\* disconnected transport raises TransportError in the same step and adds no entry. (A
\* call still in its write step may end with TransportError.)
C37_DisconnectLeavesWaiters ==
  [][/\ (listening /\ ~listening') => (fut' = fut /\ pending' = pending /\ pc' = pc)
     /\ \A c \in Calls :
          /\ (~listening /\ Outstanding(c)) =>
                \/ /\ pc'[c] = "waiting"
                   /\ fut'[c] = fut[c]
                   /\ PendingGet(pending', Str(reqId[c])) = c
                \/ pc'[c] \in {"timedout", "cancelling"} /\ fut'[c].state = "cancelled"
          /\ (pc[c] = "timedout" /\ pc'[c] = "done") =>
                /\ outcome'[c].kind \in {"TimeoutError", "CancelledError"}
                /\ Str(reqId[c]) \notin DOMAIN pending'
          /\ (pc[c] = "cancelling" /\ pc'[c] # "cancelling") =>
                /\ pc'[c] = "done"
                /\ outcome'[c].kind = "CancelledError"
                /\ Str(reqId[c]) \notin DOMAIN pending'
          /\ (~connected /\ pc[c] = "idle" /\ pc'[c] # "idle") =>
                /\ pc'[c] = "done"
                /\ outcome'[c].kind = "TransportError"
                /\ fut' = fut
                /\ pending' = pending]_vars

\* C37 witness: on a disconnected transport a call made before disconnect() still waits,
\* its waiter pending and its entry in the table, after a later call was refused
C37_Witness ==
  \E c, d \in Calls : /\ ~connected
                      /\ Outstanding(c)
                      /\ PendingGet(pending, Str(reqId[c])) = c
                      /\ pc[d] = "done"
                      /\ outcome[d].kind = "TransportError"
                      /\ fut[d].state = "none"

\* C9: every send_request on a connected transport eventually returns (with
\* TimeoutError when the backend never replies).
C9_EverySendRequestReturns ==
  \A c \in Calls : InProgress(c) ~> (pc[c] = "done")

\* --------------------------------------------------------------- MCPGateway

\* the configurations: lists of provider names, a name may be listed twice
EnabledLists == UNION {[1..k -> ProviderNames] : k \in 0..MaxEnabled}

\* a provider instance is known by the start() call and the iteration that created it
Instance(call, i) == <<call, i>>

\* what one iteration of the loop of start() can do for name n: create_provider raises
\* ValueError for a name the registry does not know, the constructor of the adapter may
\* reject its configuration, connect() may raise, or the provider is connected
AttemptResults(n) ==
  IF n \notin registered THEN {"unknown_adapter"}
  ELSE {"bad_config", "connect_error", "connected"}

\* except Exception: ... continue; the loop goes on to the next name whatever happened
AfterAttempt(i, r) == i + 1

\* a stop() whose loop ends at the first disconnect() that raises
StopRemainingAborts(rem, n, raised) == IF raised THEN {} ELSE rem \ {n}

\* try: await provider.disconnect() except Exception: the loop of stop() goes on
StopRemainingAfter(rem, n, raised) == rem \ {n}

\* a stop() that leaves the map as it is
ProvidersKept(m) == m

\* self.providers.clear()
ProvidersCleared(m) == EmptyMap

\* the instances a provider map holds
InstancesOf(m) == {m[n] : n \in DOMAIN m}

\* start() is called: discover_providers() runs and the loop begins; start() and stop()
\* are called by the one task that owns the gateway, one at a time
StartCall ==
  /\ startPc = 0
  /\ stopPc = "idle"
  /\ startCalls < MaxStarts
  /\ startCalls' = startCalls + 1
  /\ startPc' = 1
  /\ attempts' = <<>>
  /\ mapAtCall' = DOMAIN providers
  /\ startResult' = "none"
  /\ UNCHANGED <<gwConfig, providers, gwStop, gwCatalog, lastOp, everSucceeded, seen,
                 aggVars, trVars, periVars>>

\* one iteration of the loop: get_provider_config, create_provider, connect, store
StartAttempt ==
  /\ startPc \in 1..Len(enabled_providers)
  /\ \E r \in AttemptResults(enabled_providers[startPc]) :
       /\ attempts' = Append(attempts, r)
       /\ providers' = IF r = "connected"
                         THEN Put(providers, enabled_providers[startPc],
                                  Instance(startCalls, startPc))
                         ELSE providers
       /\ startPc' = AfterAttempt(startPc, r)
  /\ UNCHANGED <<gwConfig, startCalls, mapAtCall, startResult, gwStop, gwCatalog, lastOp,
                 everSucceeded, seen, aggVars, trVars, periVars>>

\* after the loop: RuntimeError when the map is empty, else new aggregators, routers and
\* conflict resolver are built over list(self.providers.values()), their maps empty, and
\* _refresh_aggregations() is entered
StartFinish ==
  /\ startPc = Len(enabled_providers) + 1
  /\ IF DOMAIN providers = {}
       THEN /\ startPc' = 0
            /\ startResult' = "RuntimeError"
            /\ lastOp' = "start"
            /\ UNCHANGED <<provider_list, tool_map_gen, refreshPc>>
       ELSE /\ startPc' = Len(enabled_providers) + 2
            /\ provider_list' = [built |-> TRUE, over |-> InstancesOf(providers)]
            /\ tool_map_gen' = 0
            /\ refreshPc' = 1
            /\ UNCHANGED <<startResult, lastOp>>
  /\ UNCHANGED <<gwConfig, providers, startCalls, attempts, mapAtCall, gwStop,
                 gw_tools_cache, gw_resources_cache, gw_prompts_cache, everSucceeded, seen,
                 aggVars, trVars, periVars>>

\* the catalog part a refresh computes from the providers of the aggregators
Snapshot == [gen |-> startCalls, over |-> provider_list.over]

\* self._tools_cache = await self.tool_aggregator.aggregate_tools(): the providers are
\* asked one after the other, then the conflict set, the maps and the list are set with
\* no await in between
RefreshTools ==
  /\ refreshPc = 1
  /\ refreshPc' = 2
  /\ tool_map_gen' = startCalls
  /\ gw_tools_cache' = Snapshot
  /\ UNCHANGED <<gwConfig, providers, gwStart, gwStop, provider_list, gw_resources_cache,
                 gw_prompts_cache, lastOp, everSucceeded, seen, aggVars, trVars, periVars>>

\* self._resources_cache = await self.resource_aggregator.aggregate_resources()
RefreshResources ==
  /\ refreshPc = 2
  /\ refreshPc' = 3
  /\ gw_resources_cache' = Snapshot
  /\ UNCHANGED <<gwConfig, providers, gwStart, gwStop, provider_list, tool_map_gen,
                 gw_tools_cache, gw_prompts_cache, lastOp, everSucceeded, seen,
                 aggVars, trVars, periVars>>

\* self._prompts_cache = await self.prompt_aggregator.aggregate_prompts(), and start()
\* returns
RefreshPrompts ==
  /\ refreshPc = 3
  /\ refreshPc' = 0
  /\ gw_prompts_cache' = Snapshot
  /\ startPc' = 0
  /\ startResult' = "ok"
  /\ lastOp' = "start"
  /\ everSucceeded' = TRUE
  /\ UNCHANGED <<gwConfig, providers, startCalls, attempts, mapAtCall, gwStop,
                 provider_list, tool_map_gen, gw_tools_cache, gw_resources_cache, seen,
                 aggVars, trVars, periVars>>

\* stop() is called and its loop over self.providers.items() begins
StopCall ==
  /\ startPc = 0
  /\ stopPc = "idle"
  /\ stopPc' = "loop"
  /\ stopRemaining' = DOMAIN providers
  /\ disconnectLog' = <<>>
  /\ mapAtStop' = InstancesOf(providers)
  /\ opBeforeStop' = lastOp
  /\ stopResult' = "none"
  /\ UNCHANGED <<gwConfig, providers, gwStart, gwCatalog, lastOp, everSucceeded, seen,
                 aggVars, trVars, periVars>>

\* one iteration of the loop of stop(): disconnect() is awaited and may raise; the
\* names are taken in any order
StopDisconnect ==
  /\ stopPc = "loop"
  /\ \E n \in stopRemaining, raised \in BOOLEAN :
       /\ disconnectLog' = Append(disconnectLog, [instance |-> providers[n], raised |-> raised])
       /\ stopRemaining' = StopRemainingAfter(stopRemaining, n, raised)
  /\ UNCHANGED <<gwConfig, providers, gwStart, stopPc, mapAtStop, opBeforeStop, stopResult,
                 gwCatalog, lastOp, everSucceeded, seen, aggVars, trVars, periVars>>

\* after the loop: self.providers.clear() and stop() returns
StopFinish ==
  /\ stopPc = "loop"
  /\ stopRemaining = {}
  /\ providers' = ProvidersCleared(providers)
  /\ stopPc' = "idle"
  /\ stopResult' = "ok"
  /\ lastOp' = "stop"
  /\ UNCHANGED <<gwConfig, gwStart, stopRemaining, disconnectLog, mapAtStop, opBeforeStop,
                 gwCatalog, everSucceeded, seen, aggVars, trVars, periVars>>

\* the parts of the catalog a reader asks for
CatalogParts == {"tools", "resources", "prompts", "tool_map"}

\* a reader served by StdioMCPServer gets one part per request, and the event loop runs
\* between two requests: handle_tools_list, handle_resources_list or handle_prompts_list
\* with its cache set (no await), or a lookup through tool_router
ReadCatalogPart(part) ==
  /\ CASE part = "tools" -> gw_tools_cache # NoCache
       [] part = "resources" -> gw_resources_cache # NoCache
       [] part = "prompts" -> gw_prompts_cache # NoCache
       [] part = "tool_map" -> provider_list.built
  /\ seen' = [seen EXCEPT ![part] =
                CASE part = "tools" -> gw_tools_cache.gen
                  [] part = "resources" -> gw_resources_cache.gen
                  [] part = "prompts" -> gw_prompts_cache.gen
                  [] part = "tool_map" -> tool_map_gen]
  /\ UNCHANGED <<gwConfig, providers, gwStart, gwStop, gwCatalog, lastOp, everSucceeded,
                 aggVars, trVars, periVars>>

\* a reader task awaits handle_tools_list, handle_resources_list and handle_prompts_list
\* and looks a tool up through tool_router, back to back: every cache is set, so no
\* handler suspends and no other task runs in between
ReadCatalog ==
  /\ gw_tools_cache # NoCache
  /\ gw_resources_cache # NoCache
  /\ gw_prompts_cache # NoCache
  /\ seen' = [tools |-> gw_tools_cache.gen, resources |-> gw_resources_cache.gen,
              prompts |-> gw_prompts_cache.gen, tool_map |-> tool_map_gen]
  /\ UNCHANGED <<gwConfig, providers, gwStart, gwStop, gwCatalog, lastOp, everSucceeded,
                 aggVars, trVars, periVars>>

\* a new gateway over any configuration and any registry
InitGw ==
  /\ enabled_providers \in EnabledLists
  /\ registered \in SUBSET ProviderNames
  /\ GwFresh
  /\ AggIdle
  /\ TrIdle
  /\ PeriIdle

NextGw ==
  \/ StartCall
  \/ StartAttempt
  \/ StartFinish
  \/ RefreshTools
  \/ RefreshResources
  \/ RefreshPrompts
  \/ StopCall
  \/ StopDisconnect
  \/ StopFinish
  \/ ReadCatalog
  \/ \E part \in CatalogParts : ReadCatalogPart(part)

SpecGw == InitGw /\ [][NextGw]_vars

\* --------------------------------------------------- claims on the gateway

\* the names whose connect() succeeded in the current or last start()
ConnectedInStart == {enabled_providers[i] : i \in {j \in 1..Len(attempts) : attempts[j] = "connected"}}

\* a start() has ended, and nothing since
StartEnded == lastOp = "start" /\ startPc = 0

\* C10: a start() has tried every enabled name, whatever failed before it; it raises if
\* and only if no provider was created and connected in it; when it succeeds the map
\* holds exactly the names whose connect() succeeded.
C10_StartFailsIffNoneConnected ==
  StartEnded =>
    /\ Len(attempts) = Len(enabled_providers)
    /\ (startResult = "RuntimeError") <=> (ConnectedInStart = {})
    /\ startResult = "ok" => DOMAIN providers = ConnectedInStart

\* a stop() has ended and no start() was called since
StopEnded == lastOp = "stop" /\ stopPc = "idle" /\ startPc = 0

\* C11: stop() calls disconnect() once on every provider of the map, also when an
\* earlier disconnect() raised, raises nothing itself and leaves the map empty.
C11_StopDisconnectsEveryProvider ==
  StopEnded =>
    /\ {e.instance : e \in Range(disconnectLog)} = mapAtStop
    /\ Len(disconnectLog) = Cardinality(mapAtStop)
    /\ stopResult = "ok"
    /\ providers = EmptyMap

\* a stop() has gone on to a second provider after the disconnect() of the first raised
C11_Witness ==
  /\ StopEnded
  /\ Len(disconnectLog) >= 2
  /\ disconnectLog[1].raised

\* the stop() in progress or ended last was called right after another stop(), or on a
\* gateway no start() of which has succeeded
StopHadNothingToDo == opBeforeStop = "stop" \/ ~everSucceeded

\* C12: a second stop(), or a stop() of a gateway whose start() never succeeded, calls
\* no disconnect(), raises nothing and changes nothing of the gateway.
C12_StopIdempotent ==
  /\ []((StopEnded /\ StopHadNothingToDo) =>
          /\ disconnectLog = <<>>
          /\ stopResult = "ok"
          /\ providers = EmptyMap)
  /\ [][(stopPc = "loop" /\ StopHadNothingToDo) =>
          UNCHANGED <<providers, gwConfig, gwCatalog>>]_vars

\* the instances on which the stop() in progress has called disconnect()
DisconnectedInStop == {disconnectLog[i].instance : i \in 1..Len(disconnectLog)}

\* C36: a provider instance whose connect() succeeded is put into the provider map and
\* leaves the map only at the end of a stop() that has called disconnect() on it, also
\* when a name is listed twice or start() is called again before stop().
C36_ConnectedProviderIsDisconnected ==
  [][/\ \A i \in 1..Len(attempts') :
          (Len(attempts') = Len(attempts) + 1 /\ i = Len(attempts') /\ attempts'[i] = "connected")
            => Instance(startCalls, i) \in InstancesOf(providers')
     /\ \A x \in InstancesOf(providers) \ InstancesOf(providers') :
          stopPc = "loop" /\ stopPc' = "idle" /\ x \in DisconnectedInStop]_vars

\* a second stop() has ended on a gateway that had been started with success
C12_Witness ==
  /\ StopEnded
  /\ opBeforeStop = "stop"
  /\ everSucceeded
  /\ stopResult = "ok"

\* C13: a reader that gets the tool list, the tool map, the resource list and the prompt
\* list back to back gets those of one and the same refresh, also while a refresh is in
\* progress.
C13_ReaderSeesOneSnapshot ==
  [][ReadCatalog => /\ seen'.tools = seen'.resources
                    /\ seen'.resources = seen'.prompts
                    /\ seen'.tool_map = seen'.tools]_vars

\* C14: once start() has connected providers or stop() has cleared the map, the lists
\* that tools/list, resources/list and prompts/list return are those of the providers
\* the map holds now.
C14_CatalogFollowsProviderSet ==
  (/\ startPc = 0
   /\ stopPc = "idle"
   /\ (lastOp = "stop" \/ (lastOp = "start" /\ startResult = "ok"))) =>
    /\ gw_tools_cache.over = InstancesOf(providers)
    /\ gw_resources_cache.over = InstancesOf(providers)
    /\ gw_prompts_cache.over = InstancesOf(providers)

\* ------------------------------------ ResourceAggregator, PromptAggregator, ResourceRouter

\* original_uri.startswith(prefix)
StartsWith(u, pre) == Len(u) >= Len(pre) /\ SubSeq(u, 1, Len(pre)) = pre

\* f"{provider.name}://"
ProviderPrefix(p) == PName(p) \o <<Sep>>

\* a rewriting that prefixes every URI, so-prefixed or not
PrefixedUriAlways(p, u) == ProviderPrefix(p) \o u

\* aggregate_resources(): the URI under which resource u of provider p is exposed
PrefixedUri(p, u) == IF ~StartsWith(u, ProviderPrefix(p)) THEN ProviderPrefix(p) \o u ELSE u

\* aggregate_resources(): the resources appended for one provider, none when its
\* list_resources() raised
PrefixedOf(p, ret) ==
  IF ret[p].ok
    THEN [i \in 1..Len(ret[p].uris) |->
            [uri |-> PrefixedUri(p, ret[p].uris[i]), provider |-> p, original |-> ret[p].uris[i]]]
    ELSE <<>>

\* aggregate_resources(): the aggregated list, providers in the order of self.providers
RECURSIVE ResourcesFrom(_, _)
ResourcesFrom(k, ret) ==
  IF k > Len(ProviderList) THEN <<>>
  ELSE PrefixedOf(ProviderList[k], ret) \o ResourcesFrom(k + 1, ret)

\* aggregate_prompts(): the aggregated list, nothing for a provider whose list_prompts() raised
RECURSIVE PromptsFrom(_, _)
PromptsFrom(k, ret) ==
  IF k > Len(ProviderList) THEN <<>>
  ELSE (IF ret[ProviderList[k]].ok THEN ret[ProviderList[k]].prompts ELSE <<>>)
         \o PromptsFrom(k + 1, ret)

\* ResourceAggregator.aggregate_resources(); ret[p] is what p.list_resources() does
AggregateResources ==
  /\ catOp = "none"
  /\ \E ret \in [ProviderNames -> ListResourcesReturns] :
       /\ list_resources_ret' = ret
       /\ aggregated_resources' = ResourcesFrom(1, ret)
  /\ resRoute' = NoResRoute
  /\ catOp' = "resources"
  /\ UNCHANGED <<tool_cache, provider_map, conflicts, provider_tools, aggregated_tools, aggCalls,
                 routerProviders, route, rpc_response, list_tools_ret, list_prompts_ret, aggregated_prompts,
                 trVars, gwVars, periVars>>

\* PromptAggregator.aggregate_prompts(); ret[p] is what p.list_prompts() does
AggregatePrompts ==
  /\ catOp = "none"
  /\ \E ret \in [ProviderNames -> ListPromptsReturns] :
       /\ list_prompts_ret' = ret
       /\ aggregated_prompts' = PromptsFrom(1, ret)
  /\ catOp' = "prompts"
  /\ UNCHANGED <<tool_cache, provider_map, conflicts, provider_tools, aggregated_tools, aggCalls,
                 routerProviders, route, rpc_response, list_tools_ret, list_resources_ret,
                 aggregated_resources, resRoute, trVars, gwVars, periVars>>

\* "://" in uri
HasSep(u) == \E i \in 1..Len(u) : u[i] = Sep

\* the position of the first "://"
FirstSep(u) == CHOOSE i \in 1..Len(u) : u[i] = Sep /\ \A j \in 1..(i - 1) : u[j] # Sep

\* ResourceAggregator.get_provider_for_uri(): the provider, or the error raised
GetProviderForUri(u) ==
  IF ~HasSep(u) THEN [kind |-> "ValueError", provider_name |-> <<>>]
  ELSE LET scheme == SubSeq(u, 1, FirstSep(u) - 1) IN
       IF \A p \in ProviderNames : PName(p) # scheme
         THEN [kind |-> "ValueError", provider_name |-> <<>>]
         ELSE [kind |-> "ok", provider_name |-> scheme]

\* ResourceAggregator.strip_provider_prefix()
StripProviderPrefix(u) == IF HasSep(u) THEN SubSeq(u, FirstSep(u) + 1, Len(u)) ELSE u

\* the URIs a client may ask to read
ResRouteUris ==
  ResUris \cup {PrefixedUri(p, u) : p \in ProviderNames, u \in ResUris} \cup {<<"zz", Sep, "x">>}

\* ResourceRouter.route_resource_read(uri)
RouteResourceRead ==
  /\ catOp = "resources"
  /\ resRoute.outcome = "none"
  /\ \E u \in ResRouteUris, raises \in BOOLEAN :
       LET found == GetProviderForUri(u) IN
       IF found.kind # "ok"
         THEN /\ raises = FALSE
              /\ resRoute' = [uri |-> u, outcome |-> "ValueError_invalid_uri", calls |-> <<>>]
       ELSE IF \A p \in routerProviders : PName(p) # found.provider_name
         THEN /\ raises = FALSE
              /\ resRoute' = [uri |-> u, outcome |-> "RuntimeError_unavailable", calls |-> <<>>]
       ELSE LET p == CHOOSE q \in routerProviders : PName(q) = found.provider_name
            IN resRoute' = [uri |-> u,
                            outcome |-> IF raises THEN "provider_raised" ELSE "ok",
                            calls |-> <<[provider |-> p, uri |-> StripProviderPrefix(u)]>>]
  /\ UNCHANGED <<tool_cache, provider_map, conflicts, provider_tools, aggregated_tools, aggCalls,
                 routerProviders, route, rpc_response, list_tools_ret, list_resources_ret,
                 aggregated_resources, list_prompts_ret, aggregated_prompts, catOp,
                 trVars, gwVars, periVars>>

\* MCPGateway.stop() as the routers see it: the provider dict they share is emptied;
\* the request whose routing is recorded comes after it
RouterProvidersCleared ==
  /\ routerProviders # {}
  /\ route.outcome = "none"
  /\ resRoute.outcome = "none"
  /\ routerProviders' = {}
  /\ UNCHANGED <<tool_cache, provider_map, conflicts, provider_tools, aggregated_tools, aggCalls,
                 route, rpc_response, catVars, trVars, gwVars, periVars>>

InitCat == AggIdle /\ TrIdle /\ GwIdle /\ PeriIdle

\* the aggregators one at a time, each on fresh state, then tool calls and resource reads
NextCat ==
  \/ catOp = "none" /\ AggregateTools
  \/ AggregateResources
  \/ AggregatePrompts
  \/ RouteToolCall
  \/ RouteResourceRead
  \/ RouterProvidersCleared

SpecCat == InitCat /\ [][NextCat]_vars

\* ---------------------------------------------------------- claims on the catalogs

\* the providers whose list call raised in the last aggregation
FailedTools == {p \in ProviderNames : ~list_tools_ret[p].ok}
FailedResources == {p \in ProviderNames : ~list_resources_ret[p].ok}
FailedPrompts == {p \in ProviderNames : ~list_prompts_ret[p].ok}

\* how many tools named n the providers that answered returned
AnsweredCount(n) ==
  Cardinality({<<p, i>> \in (ProviderNames \ FailedTools) \X (1..MaxTools) :
                 i <= Len(list_tools_ret[p].tools) /\ list_tools_ret[p].tools[i] = n})

\* the published tools of the k-th and later providers when a failing provider counts
\* as one with no tools
RECURSIVE ExpectedTools(_)
ExpectedTools(k) ==
  IF k > Len(ProviderList) THEN <<>>
  ELSE LET p == ProviderList[k]
           own == IF p \in FailedTools THEN <<>> ELSE list_tools_ret[p].tools
       IN [i \in 1..Len(own) |->
             [name |-> IF AnsweredCount(own[i]) > 1 THEN NamespacedName(p, own[i]) ELSE own[i],
              provider |-> p]]
          \o ExpectedTools(k + 1)

\* the resources the k-th and later providers that answered listed, as <<provider, uri>>
RECURSIVE ExpectedResources(_)
ExpectedResources(k) ==
  IF k > Len(ProviderList) THEN <<>>
  ELSE LET p == ProviderList[k]
           own == IF p \in FailedResources THEN <<>> ELSE list_resources_ret[p].uris
       IN [i \in 1..Len(own) |-> <<p, own[i]>>] \o ExpectedResources(k + 1)

\* the prompts the k-th and later providers that answered listed
RECURSIVE ExpectedPrompts(_)
ExpectedPrompts(k) ==
  IF k > Len(ProviderList) THEN <<>>
  ELSE LET p == ProviderList[k]
       IN (IF p \in FailedPrompts THEN <<>> ELSE list_prompts_ret[p].prompts)
          \o ExpectedPrompts(k + 1)

\* C15: when list_tools, list_resources or list_prompts of a provider raises during an
\* aggregation, the aggregation returns what it returns for the other providers with the
\* failing provider's catalog empty; a tool is namespaced only when two tools of the
\* providers that answered share its name.
C15_FailedProviderCountsAsEmpty ==
  /\ catOp = "tools" =>
       /\ [i \in 1..Len(aggregated_tools) |->
             [name |-> aggregated_tools[i].name, provider |-> aggregated_tools[i].provider]]
            = ExpectedTools(1)
       /\ conflicts = {n \in NatNames : AnsweredCount(n) > 1}
  /\ catOp = "resources" =>
       [i \in 1..Len(aggregated_resources) |->
          <<aggregated_resources[i].provider, aggregated_resources[i].original>>]
         = ExpectedResources(1)
  /\ catOp = "prompts" => aggregated_prompts = ExpectedPrompts(1)

\* C15 witness: list_tools() of a provider holding a tool raised while another provider
\* returned a tool of the same name, which is published under its natural name
C15_Witness ==
  /\ catOp = "tools"
  /\ \E p \in FailedTools, q \in ProviderNames \ FailedTools :
       /\ list_tools_ret[p].tools # <<>>
       /\ \E i \in 1..Len(list_tools_ret[q].tools) :
            /\ list_tools_ret[q].tools[i] \in Range(list_tools_ret[p].tools)
            /\ \E j \in 1..Len(aggregated_tools) :
                 /\ aggregated_tools[j].provider = q
                 /\ aggregated_tools[j].name = list_tools_ret[q].tools[i]

\* C16: reading the URI under which the aggregator exposes a resource a provider listed
\* calls read_resource once, on that provider, with the URI the provider listed.
C16_ReadExposedUriReachesOriginal ==
  (catOp = "resources" /\ resRoute.outcome # "none" /\ routerProviders = ProviderNames) =>
    \A k \in 1..Len(aggregated_resources) :
      resRoute.uri = aggregated_resources[k].uri =>
        resRoute.calls = <<[provider |-> aggregated_resources[k].provider,
                            uri |-> aggregated_resources[k].original]>>

\* C17: every aggregated resource has a URI that starts with '<p>://', p the provider that
\* listed it: the listed URI itself when it already starts so, 'p://' followed by the
\* listed URI otherwise.
C17_UriCarriesProviderPrefix ==
  \A k \in 1..Len(aggregated_resources) :
    LET r == aggregated_resources[k]
        pre == <<r.provider, Sep>>
        prefixed == Len(r.original) >= 2 /\ SubSeq(r.original, 1, 2) = pre
    IN /\ Len(r.uri) >= 2
       /\ SubSeq(r.uri, 1, 2) = pre
       /\ (prefixed => r.uri = r.original)
       /\ (~prefixed => r.uri = pre \o r.original)

\* C17 witness: one aggregation returned a rewritten URI and a URI kept as is
C17_Witness ==
  /\ catOp = "resources"
  /\ \E j, k \in 1..Len(aggregated_resources) :
       /\ aggregated_resources[j].uri # aggregated_resources[j].original
       /\ aggregated_resources[k].uri = aggregated_resources[k].original

\* ------------------------------------------------------------------ MCPProvider

\* the MCP operations of a provider
ProviderOps == {"list_resources", "read_resource", "list_tools", "call_tool", "list_prompts",
                "get_prompt"}

\* what a round trip on a connected transport ends with
RoundTrips == {"result", "malformed_result", "error_response", "no_result", "transport_error",
               "timeout"}

\* MCPClient._send_request() and the parsing of its result: "ok", or the exception raised
ClientOutcome(rt) ==
  CASE rt = "result" -> "ok"
    [] rt = "malformed_result" -> "ValidationError"
    [] rt = "error_response" -> "ProtocolError"
    [] rt = "no_result" -> "ProtocolError"
    [] rt = "transport_error" -> "TransportError"
    [] rt = "timeout" -> "TimeoutError"

\* one MCP operation of the provider: 'if not self.client: raise', then the client call,
\* which the transport refuses when it is not connected
ProviderOp(client, tconn, rt) ==
  IF ~client THEN [outcome |-> "RuntimeError_provider_not_connected", sent |-> FALSE]
  ELSE IF ~tconn THEN [outcome |-> "TransportError_not_connected", sent |-> FALSE]
  ELSE [outcome |-> ClientOutcome(rt), sent |-> TRUE]

\* a health_check() that lets the exception of a failed step through
HealthCheckPropagates(step) == IF step = "ok" THEN "True" ELSE step

\* health_check(): True after the try body, False from 'except Exception'
HealthCheckReturns(step) == IF step = "ok" THEN "True" ELSE "False"

\* the client of the provider is replaced or cleared: a call in progress holds a client
\* that is no longer the provider's
Orphaned(call) ==
  IF call.pc = "idle" THEN call ELSE [call EXCEPT !.mine = FALSE, !.alone = FALSE]

\* a connect() or disconnect() of another call runs during the call
Disturbed(call) == IF call.pc = "idle" THEN call ELSE [call EXCEPT !.alone = FALSE]

\* 'if not self.client: raise', then the transport refuses a request when it is not
\* connected: the exception raised before anything is sent, "none" when the request goes out
RefusedAtCall(client, tconn) ==
  IF ~client THEN "RuntimeError_provider_not_connected"
  ELSE IF ~tconn THEN "TransportError_not_connected"
  ELSE "none"

\* create_transport(): a new transport object, with a free lock of its own; the
\* transports are numbered as the provider creates them
NewTransport == t_made + 1

\* the disconnect() of transport t ends, 'finally: self.process = None': the calls that
\* wait for the lock of t will find no process
ProcessDropped(ops, t) ==
  [k \in OpSlots |-> IF ops[k].pc = "at_lock" /\ ops[k].tr = t
                       THEN [ops[k] EXCEPT !.dropped = TRUE] ELSE ops[k]]

\* MCPProvider.connect() is called: create_transport() raises, or the new transport and
\* its client are stored and the call is suspended in the connect() of the transport
ProvConnect ==
  /\ conn_call.pc = "idle"
  /\ \E created \in BOOLEAN :
       IF ~created
         THEN /\ p_history' = "connect_failed"
              /\ UNCHANGED <<p_client, t_connected, conn_call, disc_call, hc_call, t_id,
                             t_made>>
         ELSE /\ p_client' = TRUE
              /\ t_connected' = FALSE
              /\ conn_call' = [NoCall EXCEPT !.pc = "transport", !.mine = TRUE]
              /\ disc_call' = Orphaned(disc_call)
              /\ hc_call' = Orphaned(hc_call)
              /\ t_made < MaxTransports
              /\ t_id' = NewTransport
              /\ t_made' = t_made + 1
              /\ UNCHANGED p_history
  /\ p_op' = NoOp
  /\ hc' = NoHealthCheck
  /\ UNCHANGED <<p_connected, p_ops, lock_waiters, provRest>>

\* the connect() of the transport returns, which sets connected on that transport, and
\* connect() sets _connected; or it raises and so does connect()
ProvConnectReturns ==
  /\ conn_call.pc = "transport"
  /\ \E ok \in BOOLEAN :
       IF ok THEN /\ t_connected' = (conn_call.mine \/ t_connected)
                  /\ p_connected' = TRUE
                  /\ p_history' = "connected"
             ELSE /\ p_history' = "connect_failed"
                  /\ UNCHANGED <<t_connected, p_connected>>
  /\ conn_call' = NoCall
  /\ hc_call' = Disturbed(hc_call)
  /\ p_op' = NoOp
  /\ hc' = NoHealthCheck
  /\ UNCHANGED <<p_client, disc_call, p_ops, lock_waiters, t_id, provRest>>
  /\ UNCHANGED t_made

\* MCPProvider.disconnect() is called: without a client it clears transport and
\* _connected and returns; with a client the transport's disconnect() sets connected to
\* False and the call is suspended in it
ProvDisconnect ==
  /\ disc_call.pc = "idle"
  /\ IF ~p_client
       THEN /\ p_connected' = FALSE
            /\ t_connected' = FALSE
            /\ p_history' = IF p_history = "never" THEN "never" ELSE "disconnected"
            /\ t_id' = NoTransport
            /\ UNCHANGED disc_call
       ELSE /\ t_connected' = FALSE
            /\ disc_call' = [NoCall EXCEPT !.pc = "transport", !.mine = TRUE, !.tr = t_id]
            /\ UNCHANGED <<p_connected, p_history, t_id>>
  /\ hc_call' = Disturbed(hc_call)
  /\ p_op' = NoOp
  /\ hc' = NoHealthCheck
  /\ UNCHANGED <<p_client, conn_call, p_ops, lock_waiters, provRest>>
  /\ UNCHANGED t_made

\* the disconnect() of the transport returns, and disconnect() clears client, transport
\* and _connected; or it raises and so does disconnect(). Either way the transport has
\* dropped its process on the way out
ProvDisconnectReturns ==
  /\ disc_call.pc = "transport"
  /\ \E raises \in BOOLEAN :
       IF raises
         THEN /\ p_history' = "disconnect_failed"
              /\ UNCHANGED <<p_client, t_connected, p_connected, conn_call, t_id>>
              /\ hc_call' = Disturbed(hc_call)
         ELSE /\ p_client' = FALSE
              /\ t_connected' = FALSE
              /\ p_connected' = FALSE
              /\ p_history' = IF p_history = "never" THEN "never" ELSE "disconnected"
              /\ conn_call' = Orphaned(conn_call)
              /\ hc_call' = Orphaned(hc_call)
              /\ t_id' = NoTransport
  /\ p_ops' = ProcessDropped(p_ops, disc_call.tr)
  /\ disc_call' = NoCall
  /\ p_op' = NoOp
  /\ hc' = NoHealthCheck
  /\ UNCHANGED <<lock_waiters, provRest>>
  /\ UNCHANGED t_made

\* the _request_lock of transport t is held: by the call that is in drain() on t
LockHeld(t) == \E k \in OpSlots : p_ops[k].pc = "draining" /\ p_ops[k].tr = t

\* the calls that wait for the lock of transport t, in the order they came
Waiters(t) == SelectSeq(lock_waiters, LAMBDA k : p_ops[k].tr = t)

\* the sequence without call k
Without(waiters, k) == SelectSeq(waiters, LAMBDA j : j # k)

\* send_request of call k, past its test of connected and process, registers its future
\* and comes to the lock of the provider's transport: held, or with calls waiting for
\* it, the call waits; free, the request is written, and drain() suspends the call or
\* returns at once, which releases the lock and leaves the call in wait_for
OpSends(k, call) ==
  IF LockHeld(t_id) \/ Waiters(t_id) # <<>>
    THEN /\ p_ops' = [p_ops EXCEPT ![k] = [call EXCEPT !.pc = "at_lock", !.tr = t_id]]
         /\ lock_waiters' = Append(lock_waiters, k)
    ELSE /\ \E suspends \in BOOLEAN :
              p_ops' = [p_ops EXCEPT ![k] = IF suspends
                                              THEN [call EXCEPT !.pc = "draining", !.tr = t_id]
                                              ELSE [call EXCEPT !.pc = "waiting"]]
         /\ UNCHANGED lock_waiters

\* the send_request of call k ends: an operation raises or returns; health_check()
\* returns True after list_resources() and False from 'except Exception'
OpEnds(k, result, sent, rt) ==
  /\ p_ops' = [p_ops EXCEPT ![k] = NoOpCall]
  /\ IF k = HcSlot
       THEN /\ hc' = [outcome |-> HealthCheckReturns(result),
                      round_trip |-> IF sent THEN rt ELSE "none",
                      was_connected |-> hc_call.was_connected, alone |-> hc_call.alone]
            /\ hc_call' = NoCall
            /\ p_op' = NoOp
       ELSE /\ p_op' = [op |-> p_ops[k].op, connected |-> p_ops[k].connected,
                        outcome |-> result, sent |-> sent]
            /\ hc' = NoHealthCheck
            /\ UNCHANGED hc_call

\* one of the six MCP operations is called on the provider: it raises at once without a
\* client or on a transport that is not connected, else its request goes to the transport
ProvOperation ==
  /\ \E op \in ProviderOps :
       LET refused == RefusedAtCall(p_client, t_connected)
           r == ProviderOp(p_client, t_connected, "result")
       IN IF refused # "none"
            THEN /\ p_op' = [op |-> op, connected |-> p_connected, outcome |-> r.outcome,
                             sent |-> r.sent]
                 /\ UNCHANGED <<p_ops, lock_waiters>>
            ELSE /\ \E k \in OpCalls :
                      /\ p_ops[k].pc = "idle"
                      /\ \A j \in OpCalls : j < k => p_ops[j].pc # "idle"
                      /\ OpSends(k, [NoOpCall EXCEPT !.op = op, !.connected = p_connected])
                 /\ p_op' = NoOp
  /\ hc' = NoHealthCheck
  /\ UNCHANGED <<p_client, p_connected, t_connected, p_history, conn_call, disc_call,
                 hc_call, t_id, provRest>>
  /\ UNCHANGED t_made

\* call k gets the lock of its transport. self.process is read only now: on a transport
\* whose disconnect() has ended it is None and the call raises TransportError with nothing
\* written; else the request is written and drain() suspends the call or returns at once
ProvOpAcquires(k) ==
  /\ p_ops[k].pc = "at_lock"
  /\ k = Head(Waiters(p_ops[k].tr))
  /\ ~LockHeld(p_ops[k].tr)
  /\ lock_waiters' = Without(lock_waiters, k)
  /\ IF p_ops[k].dropped
       THEN OpEnds(k, "TransportError", FALSE, "none")
       ELSE /\ \E suspends \in BOOLEAN :
                 p_ops' = [p_ops EXCEPT ![k].pc = IF suspends THEN "draining" ELSE "waiting",
                                        ![k].tr = IF suspends THEN @ ELSE NoTransport]
            /\ p_op' = NoOp
            /\ hc' = NoHealthCheck
            /\ UNCHANGED hc_call
  /\ UNCHANGED <<p_client, p_connected, t_connected, p_history, conn_call, disc_call,
                 t_id, provRest>>
  /\ UNCHANGED t_made

\* drain() of call k returns and the lock is released, the call goes on to wait_for; or
\* drain() raises and the call raises TransportError
ProvOpDrained(k) ==
  /\ p_ops[k].pc = "draining"
  /\ \E ok \in BOOLEAN :
       IF ok THEN /\ p_ops' = [p_ops EXCEPT ![k].pc = "waiting", ![k].tr = NoTransport]
                  /\ p_op' = NoOp
                  /\ hc' = NoHealthCheck
                  /\ UNCHANGED hc_call
             ELSE OpEnds(k, "TransportError", TRUE, "transport_error")
  /\ UNCHANGED <<p_client, p_connected, t_connected, p_history, conn_call, disc_call,
                 lock_waiters, t_id, provRest>>
  /\ UNCHANGED t_made

\* the round trip of an operation ends: with the reply, with an exception set on the
\* future, or with the timeout
ProvOpReplied(k) ==
  /\ k \in OpCalls
  /\ p_ops[k].pc = "waiting"
  /\ \E rt \in RoundTrips : OpEnds(k, ClientOutcome(rt), TRUE, rt)
  /\ UNCHANGED <<p_client, p_connected, t_connected, p_history, conn_call, disc_call,
                 lock_waiters, t_id, provRest>>
  /\ UNCHANGED t_made

\* health_check() returns without a round trip: step is the exception caught
HealthCheckEnds(step, was, alone) ==
  /\ hc' = [outcome |-> HealthCheckReturns(step), round_trip |-> "none",
            was_connected |-> was, alone |-> alone]
  /\ hc_call' = NoCall
  /\ UNCHANGED <<p_ops, lock_waiters>>

\* list_resources() is called by health_check(): the call held in hc_call' goes on in
\* send_request
HealthCheckLists ==
  /\ OpSends(HcSlot, [NoOpCall EXCEPT !.op = "list_resources", !.connected = TRUE])
  /\ hc' = NoHealthCheck

\* MCPProvider.health_check() is called. Not connected: connect() is called, whose
\* create_transport() raises, or which stores transport and client and is suspended in
\* the connect() of the transport. Connected: list_resources() is called, which raises at
\* once or goes to the transport
HealthCheck ==
  /\ hc_call.pc = "idle"
  /\ IF ~p_connected
       THEN \E created \in BOOLEAN :
              IF ~created
                THEN /\ p_history' = "connect_failed"
                     /\ HealthCheckEnds("ConnectionError", FALSE, TRUE)
                     /\ UNCHANGED <<p_client, t_connected, conn_call, disc_call, t_id,
                                    t_made>>
                ELSE /\ p_client' = TRUE
                     /\ t_connected' = FALSE
                     /\ hc_call' = [NoCall EXCEPT !.pc = "connecting", !.mine = TRUE]
                     /\ conn_call' = Orphaned(conn_call)
                     /\ disc_call' = Orphaned(disc_call)
                     /\ t_made < MaxTransports
                     /\ t_id' = NewTransport
                     /\ t_made' = t_made + 1
                     /\ hc' = NoHealthCheck
                     /\ UNCHANGED <<p_history, p_ops, lock_waiters>>
       ELSE /\ IF RefusedAtCall(p_client, t_connected) # "none"
                 THEN HealthCheckEnds(RefusedAtCall(p_client, t_connected), TRUE, TRUE)
                 ELSE /\ hc_call' = [NoCall EXCEPT !.pc = "listing", !.mine = TRUE,
                                                   !.was_connected = TRUE]
                      /\ HealthCheckLists
            /\ UNCHANGED <<p_client, t_connected, p_history, conn_call, disc_call, t_id,
                           t_made>>
  /\ p_op' = NoOp
  /\ UNCHANGED <<p_connected, provRest>>

\* the connect() inside health_check() returns or raises; after it list_resources() is
\* called on the client the provider holds now
HealthCheckConnected ==
  /\ hc_call.pc = "connecting"
  /\ \E ok \in BOOLEAN :
       IF ~ok
         THEN /\ p_history' = "connect_failed"
              /\ HealthCheckEnds("ConnectionError", FALSE, hc_call.alone)
              /\ UNCHANGED <<t_connected, p_connected>>
         ELSE LET tconn == hc_call.mine \/ t_connected IN
              /\ t_connected' = tconn
              /\ p_connected' = TRUE
              /\ p_history' = "connected"
              /\ IF RefusedAtCall(p_client, tconn) # "none"
                   THEN HealthCheckEnds(RefusedAtCall(p_client, tconn), FALSE, hc_call.alone)
                   ELSE /\ hc_call' = [hc_call EXCEPT !.pc = "listing"]
                        /\ HealthCheckLists
  /\ p_op' = NoOp
  /\ UNCHANGED <<p_client, conn_call, disc_call, t_id, provRest>>
  /\ UNCHANGED t_made

\* a health_check() that disconnects again the provider it had to connect
HealthCheckListedThenDisconnects ==
  /\ hc_call.pc = "listing"
  /\ p_ops[HcSlot].pc = "waiting"
  /\ \E rt \in RoundTrips : OpEnds(HcSlot, ClientOutcome(rt), TRUE, rt)
  /\ p_client' = (p_client /\ hc_call.was_connected)
  /\ t_connected' = (t_connected /\ hc_call.was_connected)
  /\ p_connected' = (p_connected /\ hc_call.was_connected)
  /\ t_id' = (IF hc_call.was_connected THEN t_id ELSE NoTransport)
  /\ UNCHANGED <<p_history, conn_call, disc_call, lock_waiters, provRest>>
  /\ UNCHANGED t_made

\* the round trip of list_resources() ends and health_check() returns; it has no
\* disconnect() on any path
HealthCheckListed ==
  /\ hc_call.pc = "listing"
  /\ p_ops[HcSlot].pc = "waiting"
  /\ \E rt \in RoundTrips : OpEnds(HcSlot, ClientOutcome(rt), TRUE, rt)
  /\ UNCHANGED <<p_client, t_connected, p_connected, p_history, conn_call, disc_call,
                 lock_waiters, t_id, provRest>>
  /\ UNCHANGED t_made

InitProv == AggIdle /\ TrIdle /\ GwIdle /\ PeriIdle

NextProv ==
  \/ ProvConnect
  \/ ProvConnectReturns
  \/ ProvDisconnect
  \/ ProvDisconnectReturns
  \/ ProvOperation
  \/ \E k \in OpSlots : ProvOpAcquires(k)
  \/ \E k \in OpSlots : ProvOpDrained(k)
  \/ \E k \in OpCalls : ProvOpReplied(k)
  \/ HealthCheck
  \/ HealthCheckConnected
  \/ HealthCheckListed

SpecProv == InitProv /\ [][NextProv]_vars

\* ---------------------------------------------------------- claims on the provider

\* C22: an MCP operation called while the provider is not connected fails with the
\* 'Provider not connected' error and sends nothing to a transport.
C22_NotConnectedOpFails ==
  (p_op.op # "none" /\ ~p_op.connected) =>
    /\ p_op.outcome = "RuntimeError_provider_not_connected"
    /\ ~p_op.sent

\* C23: health_check() does not raise; it returns True when its list_resources round trip
\* succeeded and False in every other case.
C23_HealthCheckIsRoundTrip ==
  hc.outcome # "none" =>
    /\ hc.outcome \in {"True", "False"}
    /\ hc.outcome = "True" <=> hc.round_trip = "result"

\* C23 witness: health checks that failed at the connect, and (here) one that failed at
\* the round trip after a successful connect of a provider that was not connected
C23_Witness ==
  /\ hc.outcome = "False"
  /\ hc.round_trip \in RoundTrips \ {"result"}
  /\ p_history = "connected"


\* a step of a health_check()
HealthCheckStep ==
  \/ HealthCheck
  \/ HealthCheckConnected
  \/ ProvOpAcquires(HcSlot)
  \/ ProvOpDrained(HcSlot)
  \/ HealthCheckListed

\* a step of an MCP operation
OperationStep ==
  \/ ProvOperation
  \/ \E k \in OpCalls : ProvOpAcquires(k) \/ ProvOpDrained(k) \/ ProvOpReplied(k)

\* C38 as stated: health_check() on a provider that is not connected goes through
\* connect(); no step of it lowers the connected flag of the transport or clears the
\* client; on a connected provider it leaves client, transport and history as they are
\* (no new transport); when it returns True the provider is connected with a client over
\* a connected transport; no MCP operation releases the transport either.
C38_TrueLeavesConnected ==
  [][/\ HealthCheckStep =>
          /\ (p_connected /\ hc_call.pc # "connecting") =>
                UNCHANGED <<p_client, t_connected, p_connected, p_history, t_id>>
          /\ (~p_connected /\ hc_call.pc = "idle") =>
                (hc_call'.pc = "connecting" \/ p_history' = "connect_failed")
          /\ t_connected => t_connected'
          /\ p_client => p_client'
          /\ p_connected => p_connected'
          /\ hc'.outcome = "True" => (p_connected' /\ p_client' /\ t_connected')
     /\ OperationStep => UNCHANGED <<p_client, t_connected, p_connected, t_id>>]_vars

\* C38: as stated, except that True leaves the provider connected with a client over a
\* connected transport when no other connect() or disconnect() of the provider ran
\* during the check.
C38_HealthCheckLeavesConnected ==
  [][/\ HealthCheckStep =>
          /\ (p_connected /\ hc_call.pc # "connecting") =>
                UNCHANGED <<p_client, t_connected, p_connected, p_history, t_id>>
          /\ (~p_connected /\ hc_call.pc = "idle") =>
                (hc_call'.pc = "connecting" \/ p_history' = "connect_failed")
          /\ t_connected => t_connected'
          /\ p_client => p_client'
          /\ p_connected => p_connected'
          /\ (hc'.outcome = "True" /\ hc'.alone) =>
                (p_connected' /\ p_client' /\ t_connected')
     /\ OperationStep => UNCHANGED <<p_client, t_connected, p_connected, t_id>>]_vars

\* C38 witness: a health check on a provider that was not connected has returned True,
\* with no other call meanwhile, and the provider is still connected, its transport open
C38_Witness ==
  /\ hc.outcome = "True"
  /\ ~hc.was_connected
  /\ hc.alone
  /\ hc_call.pc = "idle"
  /\ disc_call.pc = "idle"
  /\ p_history = "connected"
  /\ p_connected
  /\ p_client
  /\ t_connected

\* ------------------------------------------------------------- StdioMCPServer

\* the error codes of the responses the server builds itself
ParseErrorCode == -32700
InternalErrorCode == -32603
MethodNotFoundCode == -32601

\* the methods with a registered handler
RegisteredMethods == {"tools/call"}

\* request ids
RequestIds == {"7", "8"}

\* what a handler does with a request: it returns a result, returns a result that cannot
\* be serialized, or raises an exception of the class named
HandlerOutcomes == {"result", "unserializable_result", "ProtocolError", "ProviderError",
                    "RuntimeError", "NotImplementedError"}

\* a line of input that is not a request; "constant" is NaN, Infinity or -Infinity,
\* which json.loads accepts; "not_object" is a JSON value other than an object;
\* "invalid_request" is an object that JSONRPCRequest rejects
OtherLine(k) == [kind |-> k, id |-> "None", method |-> "None", does |-> "None"]

\* the lines the server may read
Lines ==
  {OtherLine(k) : k \in {"empty", "blank", "bad_json", "constant", "not_object",
                         "invalid_request"}}
  \cup [kind : {"request"}, id : RequestIds, method : RegisteredMethods, does : HandlerOutcomes]
  \cup [kind : {"request"}, id : RequestIds, method : {"nope"}, does : {"None"}]

\* a response as written to stdout; code 0 stands for a result
ServerResponse(id, code, type) == [id |-> id, code |-> code, data_type |-> type]

\* StdioMCPServer.handle_request(request)
HandleRequestOf(line) ==
  IF line.method \notin RegisteredMethods
    THEN ServerResponse(line.id, MethodNotFoundCode, "None")
    ELSE LET h == IF line.does \in {"result", "unserializable_result"}
                    THEN [kind |-> "result", exc |-> "None"]
                    ELSE [kind |-> "raised", exc |-> line.does]
             r == HandleRequest(h)
         IN ServerResponse(line.id, r.code, r.data_type)

\* the id of the response built in 'except Exception' of _read_loop:
\* request.id if "request" in locals() else "unknown"
IdInLocals(req) == IF req = "unbound" THEN "unknown" ELSE req

\* one turn of the while loop of _read_loop for a line read from stdin: the responses
\* written, and the local 'request' after the turn
ReadLoopTurn(line, req) ==
  CASE line.kind \in {"empty", "blank"} -> [responses |-> <<>>, request |-> req]
    [] line.kind = "bad_json" ->
         [responses |-> <<ServerResponse("unknown", ParseErrorCode, "None")>>, request |-> req]
    [] line.kind \in {"constant", "not_object", "invalid_request"} ->
         [responses |-> <<ServerResponse(IdInLocals(req), InternalErrorCode, "None")>>,
          request |-> req]
    [] line.kind = "request" ->
         IF line.method \in RegisteredMethods /\ line.does = "unserializable_result"
           THEN [responses |-> <<ServerResponse(line.id, InternalErrorCode, "None")>>,
                 request |-> line.id]
           ELSE [responses |-> <<HandleRequestOf(line)>>, request |-> line.id]

\* a loop that reads the next line while a handler is still awaited
MayReadWhileHandling(inflight) == TRUE

\* the while loop of _read_loop is at readline() only when no handle_request is awaited:
\* the handler is awaited inside the loop body, before the response is written
MayRead(inflight) == inflight = {}

\* _read_loop reads one line; a line that is no request is answered at once, for a
\* request handle_request is awaited
ServerReadLine ==
  /\ srv_state = "reading"
  /\ srv_running
  /\ MayRead(srv_inflight)
  /\ srv_reads < MaxLines
  /\ srv_reads' = srv_reads + 1
  /\ \E line \in Lines :
       IF line.kind = "request"
         THEN /\ srv_inflight' = srv_inflight \cup {[line |-> line, seq |-> srv_reads + 1]}
              /\ UNCHANGED <<srv_log, srv_request>>
         ELSE LET t == ReadLoopTurn(line, srv_request)
              IN /\ srv_log' = Append(srv_log, [line |-> line, responses |-> t.responses,
                                                after |-> "reading", seq |-> srv_reads + 1])
                 /\ srv_request' = t.request
                 /\ UNCHANGED srv_inflight
  /\ UNCHANGED <<srv_state, srv_running, serve_pc, srvRest>>

\* handle_request returns and _send_response writes the response
ServerResponds ==
  /\ srv_state = "reading"
  /\ srv_running
  /\ \E x \in srv_inflight :
       LET t == ReadLoopTurn(x.line, srv_request)
       IN /\ srv_log' = Append(srv_log, [line |-> x.line, responses |-> t.responses,
                                         after |-> "reading", seq |-> x.seq])
          /\ srv_request' = t.request
          /\ srv_inflight' = srv_inflight \ {x}
  /\ UNCHANGED <<srv_state, srv_reads, srv_running, serve_pc, srvRest>>

\* readline() returns "": _read_loop breaks out of its loop and returns; nothing else is
\* assigned
ServerEof ==
  /\ srv_state = "reading"
  /\ srv_running
  /\ MayRead(srv_inflight)
  /\ srv_state' = "ended"
  /\ UNCHANGED <<srv_request, srv_log, srv_reads, srv_inflight, srv_running, serve_pc, srvRest>>

\* gateway.stop() is called by run_server: its loop is suspended in the disconnect() of
\* a provider; with no provider it clears the map and returns at once
GatewayStopCalled ==
  /\ disconnectLog' = <<>>
  /\ mapAtStop' = InstancesOf(providers)
  /\ opBeforeStop' = lastOp
  /\ IF DOMAIN providers = {}
       THEN /\ providers' = ProvidersCleared(providers)
            /\ stopPc' = "idle"
            /\ stopRemaining' = {}
            /\ stopResult' = "ok"
            /\ lastOp' = "stop"
            /\ serve_pc' = "stopped"
       ELSE /\ stopPc' = "loop"
            /\ stopRemaining' = DOMAIN providers
            /\ stopResult' = "none"
            /\ serve_pc' = "gateway_stop"
            /\ UNCHANGED <<providers, lastOp>>

\* server.stop() is called by the finally clause of run_server: running is cleared; a
\* read task that has not ended is cancelled and awaited; after a read task that has
\* ended stop() returns and gateway.stop() is called
ServerStopCalled ==
  /\ srv_running' = FALSE
  /\ IF srv_state = "reading"
       THEN /\ serve_pc' = "stopping"
            /\ UNCHANGED <<providers, gwStop, lastOp>>
       ELSE GatewayStopCalled
  /\ UNCHANGED <<srv_state, srv_request, srv_log, srv_reads, srv_inflight>>

\* one turn of 'while server.running: await asyncio.sleep(1)' of run_server; when the
\* flag is down the loop is left for the finally clause
ServeLoopTurn ==
  /\ serve_pc = "waiting"
  /\ IF srv_running
       THEN UNCHANGED <<srvVars, providers, gwStop, lastOp>>
       ELSE ServerStopCalled
  /\ UNCHANGED <<gwConfig, gwStart, gwCatalog, everSucceeded, seen, srvOthers>>

\* the task of run_server is interrupted in its sleep and goes to its finally clause
ServeInterrupted ==
  /\ serve_pc = "waiting"
  /\ ServerStopCalled
  /\ UNCHANGED <<gwConfig, gwStart, gwCatalog, everSucceeded, seen, srvOthers>>

\* the cancelled read task runs. Suspended in readline(), or in a handler whose reply has
\* not arrived, it ends with CancelledError and the request in flight gets no response.
\* Suspended in asyncio.wait_for of send_request with the reply there, wait_for returns
\* the reply: the handler returns, the response is written and the loop ends at its test
\* of the running flag
ReadTaskCancelled ==
  /\ serve_pc = "stopping"
  /\ srv_state = "reading"
  /\ srv_state' = "ended"
  /\ IF srv_inflight = {}
       THEN UNCHANGED <<srv_log, srv_request, srv_inflight>>
       ELSE \E x \in srv_inflight, replied \in BOOLEAN :
              /\ srv_inflight' = srv_inflight \ {x}
              /\ IF replied
                   THEN LET t == ReadLoopTurn(x.line, srv_request)
                        IN /\ srv_log' = Append(srv_log,
                                                [line |-> x.line, responses |-> t.responses,
                                                 after |-> "ended", seq |-> x.seq])
                           /\ srv_request' = t.request
                   ELSE UNCHANGED <<srv_log, srv_request>>
  /\ UNCHANGED <<srv_reads, srv_running, serve_pc, srvRest>>

\* server.stop() is resumed by the end of the read task and returns; gateway.stop() is
\* called
ServerStopReturns ==
  /\ serve_pc = "stopping"
  /\ srv_state = "ended"
  /\ GatewayStopCalled
  /\ UNCHANGED <<srv_state, srv_request, srv_log, srv_reads, srv_inflight, srv_running>>
  /\ UNCHANGED <<gwConfig, gwStart, gwCatalog, everSucceeded, seen, srvOthers>>

\* the provider whose disconnect() gateway.stop() awaits: the loop follows the order of
\* insertion into self.providers, which is the order of the enabled list here
NextToDisconnect ==
  enabled_providers[CHOOSE i \in 1..Len(enabled_providers) :
                      /\ enabled_providers[i] \in stopRemaining
                      /\ \A j \in 1..(i - 1) : enabled_providers[j] \notin stopRemaining]

\* inside gateway.stop(): the disconnect() of a provider returns or raises and the next
\* one is awaited; after the last one the map is cleared, stop() returns and run_server
\* ends
GatewayStopDisconnects ==
  /\ serve_pc = "gateway_stop"
  /\ \E raised \in BOOLEAN :
       LET n == NextToDisconnect
           rest == StopRemainingAfter(stopRemaining, n, raised)
       IN /\ disconnectLog' = Append(disconnectLog,
                                     [instance |-> providers[n], raised |-> raised])
          /\ stopRemaining' = rest
          /\ IF rest = {}
               THEN /\ providers' = ProvidersCleared(providers)
                    /\ stopPc' = "idle"
                    /\ stopResult' = "ok"
                    /\ lastOp' = "stop"
                    /\ serve_pc' = "stopped"
               ELSE UNCHANGED <<providers, stopPc, stopResult, lastOp, serve_pc>>
  /\ UNCHANGED <<mapAtStop, opBeforeStop>>
  /\ UNCHANGED <<srv_state, srv_request, srv_log, srv_reads, srv_inflight, srv_running>>
  /\ UNCHANGED <<gwConfig, gwStart, gwCatalog, everSucceeded, seen, srvOthers>>

\* the gateway of run_server when the server starts: start() has returned, every enabled
\* provider connected, and the caches are those of its refresh
GwStarted ==
  /\ enabled_providers \in {SubSeq(ProviderList, 1, k) : k \in 1..Len(ProviderList)}
  /\ registered = Range(enabled_providers)
  /\ providers = [n \in Range(enabled_providers) |->
                    Instance(1, CHOOSE i \in 1..Len(enabled_providers) :
                                  enabled_providers[i] = n)]
  /\ startPc = 0
  /\ startCalls = 1
  /\ attempts = [i \in 1..Len(enabled_providers) |-> "connected"]
  /\ mapAtCall = {}
  /\ startResult = "ok"
  /\ provider_list = [built |-> TRUE, over |-> InstancesOf(providers)]
  /\ lastOp = "start"
  /\ everSucceeded = TRUE
  /\ stopPc = "idle"
  /\ stopRemaining = {}
  /\ disconnectLog = <<>>
  /\ mapAtStop = {}
  /\ opBeforeStop = "none"
  /\ stopResult = "none"
  /\ refreshPc = 0
  /\ tool_map_gen = 1
  /\ gw_tools_cache = [gen |-> 1, over |-> InstancesOf(providers)]
  /\ gw_resources_cache = [gen |-> 1, over |-> InstancesOf(providers)]
  /\ gw_prompts_cache = [gen |-> 1, over |-> InstancesOf(providers)]
  /\ seen = NoSeen

InitSrv == AggIdle /\ TrIdle /\ GwStarted /\ PeriIdle

NextSrv ==
  \/ ServerReadLine
  \/ ServerResponds
  \/ ServerEof
  \/ ServeLoopTurn
  \/ ServeInterrupted
  \/ ReadTaskCancelled
  \/ ServerStopReturns
  \/ GatewayStopDisconnects

SpecSrv == InitSrv /\ [][NextSrv]_vars

\* the event loop resumes the sleeping run_server, the cancelled read task, the stop()
\* that awaits it, and the disconnect() calls of gateway.stop() return
FairSrv ==
  /\ WF_vars(ServeLoopTurn)
  /\ WF_vars(ReadTaskCancelled)
  /\ WF_vars(ServerStopReturns)
  /\ WF_vars(GatewayStopDisconnects)

FairSpecSrv == InitSrv /\ [][NextSrv]_vars /\ FairSrv

\* ------------------------------------------------------------ claims on the server

\* C24: for every non-empty line that is not valid JSON the server writes exactly one
\* response, with code -32700 and id "unknown", and goes on reading; for an empty line it
\* writes nothing.
C24_ParseErrorForEveryNonJsonLine ==
  \A i \in 1..Len(srv_log) :
    /\ srv_log[i].line.kind \in {"bad_json", "constant"} =>
         /\ srv_log[i].responses = <<ServerResponse("unknown", ParseErrorCode, "None")>>
         /\ srv_log[i].after = "reading"
    /\ srv_log[i].line.kind \in {"empty", "blank"} => srv_log[i].responses = <<>>

\* the exception classes of mcp.exceptions a handler raises on purpose
DomainErrors == {"ProtocolError", "ProviderError"}

\* C25: the response to a request with a registered method has code -32000 and the error
\* kind in data.type when the handler raised a domain error, and code -32603 on any other
\* failure of the handler.
C25_ErrorCodeByFailureClass ==
  \A i \in 1..Len(srv_log) :
    LET l == srv_log[i].line IN
    (l.kind = "request" /\ l.method \in RegisteredMethods /\ l.does # "result") =>
      /\ Len(srv_log[i].responses) = 1
      /\ l.does \in DomainErrors =>
           /\ srv_log[i].responses[1].code = ServerErrorCode
           /\ srv_log[i].responses[1].data_type = l.does
      /\ l.does \notin DomainErrors => srv_log[i].responses[1].code = InternalErrorCode

\* C33: for every non-empty line the server writes exactly one response, with the id of
\* the request on that line, or "unknown" when the line has no usable id; a response
\* never carries the id of an earlier request.
C33_ResponseCarriesOwnId ==
  \A i \in 1..Len(srv_log) :
    LET l == srv_log[i].line IN
    l.kind \notin {"empty", "blank"} =>
      /\ Len(srv_log[i].responses) = 1
      /\ srv_log[i].responses[1].id = IF l.kind = "request" THEN l.id ELSE "unknown"

\* C34: the server handles one request at a time: no line is read while a handler is
\* awaited, so at most one handler is in flight, every line read before the request in
\* flight has been answered, and the responses are written in the order of arrival.
C34_OneRequestAtATime ==
  /\ Cardinality(srv_inflight) <= 1
  /\ \A x \in srv_inflight : x.seq = srv_reads /\ Len(srv_log) = srv_reads - 1
  /\ \A i \in 1..Len(srv_log) : srv_log[i].seq = i

\* C34 witness: two requests were answered in turn and a third is in flight
C34_Witness ==
  /\ Len(srv_log) = 2
  /\ \A i \in 1..2 : srv_log[i].line.kind = "request" /\ Len(srv_log[i].responses) = 1
  /\ \E x \in srv_inflight : x.seq = 3

\* C35: at end-of-file of stdin the read loop ends and the running flag becomes false,
\* so that run_server leaves its wait loop and calls gateway.stop().
C35_EofStopsTheServer ==
  /\ [](srv_state = "ended" => ~srv_running)
  /\ (srv_state = "ended") ~> (serve_pc = "stopped")

\* ------------------------------------------------- list handlers of the gateway

\* what an aggregation returns: an empty list or a list with items
Catalogs == {"empty", "items"}

\* the cache _refresh_aggregations assigns at its k-th step
RefreshOrder == <<"tools", "resources", "prompts">>

\* a test for an unset cache that takes an empty list for unset
CacheFalsy(c) == c \in {"None", "empty"}

\* self._tools_cache is None
CacheUnset(c) == c = "None"

\* (self._tools_cache or [])
CacheOrEmpty(c) == IF c = "None" THEN "empty" ELSE c

\* start() connected a provider, built the aggregators and calls _refresh_aggregations
ListStartBegins ==
  /\ l_start_pc = 0
  /\ l_aggregators' = TRUE
  /\ l_start_pc' = 1
  /\ UNCHANGED <<l_cache, l_handler, l_last, lstRest>>

\* one assignment of the _refresh_aggregations called by start(); after the third start()
\* returns
ListStartRefreshes ==
  /\ l_start_pc \in 1..3
  /\ \E c \in Catalogs : l_cache' = [l_cache EXCEPT ![RefreshOrder[l_start_pc]] = c]
  /\ l_start_pc' = l_start_pc + 1
  /\ UNCHANGED <<l_aggregators, l_handler, l_last, lstRest>>

\* handle_tools_list, handle_resources_list or handle_prompts_list is called: with its
\* cache set it returns at once; without aggregators its refresh does nothing and it
\* returns []; otherwise its refresh begins
HandleListCalled ==
  /\ l_handler.name = "none"
  /\ \E h \in ListKinds :
       LET call == [handler |-> h, was_set |-> l_cache[h] # "None", refreshed |-> FALSE,
                    calls |-> 0, before |-> l_cache, after |-> l_cache,
                    returned |-> "None", done |-> FALSE]
       IN IF ~CacheUnset(l_cache[h])
            THEN /\ l_last' = [call EXCEPT !.returned = CacheOrEmpty(l_cache[h]), !.done = TRUE]
                 /\ UNCHANGED l_handler
          ELSE IF ~l_aggregators
            THEN /\ l_last' = [call EXCEPT !.refreshed = TRUE,
                                           !.returned = CacheOrEmpty(l_cache[h]), !.done = TRUE]
                 /\ UNCHANGED l_handler
          ELSE /\ l_last' = [call EXCEPT !.refreshed = TRUE]
               /\ l_handler' = [name |-> h, pc |-> 1]
  /\ UNCHANGED <<l_aggregators, l_cache, l_start_pc, lstRest>>

\* one assignment of the _refresh_aggregations called by a handler; after the third the
\* handler returns its cache
HandleListRefreshes ==
  /\ l_handler.name # "none"
  /\ \E c \in Catalogs :
       LET cache == [l_cache EXCEPT ![RefreshOrder[l_handler.pc]] = c]
       IN /\ l_cache' = cache
          /\ IF l_handler.pc < 3
               THEN /\ l_handler' = [l_handler EXCEPT !.pc = @ + 1]
                    /\ l_last' = [l_last EXCEPT !.calls = @ + 1]
               ELSE /\ l_handler' = [name |-> "none", pc |-> 0]
                    /\ l_last' = [l_last EXCEPT !.calls = @ + 1, !.after = cache,
                                                !.returned = CacheOrEmpty(cache[l_handler.name]),
                                                !.done = TRUE]
  /\ UNCHANGED <<l_aggregators, l_start_pc, lstRest>>

InitLst == AggIdle /\ TrIdle /\ GwIdle /\ PeriIdle

NextLst == ListStartBegins \/ ListStartRefreshes \/ HandleListCalled \/ HandleListRefreshes

SpecLst == InitLst /\ [][NextLst]_vars

\* C26: a list handler refreshes only when its cache is unset; with its cache set, an
\* empty list included, it calls no aggregation, leaves every cache as it was and returns
\* the cache; in every case it returns the cached catalog.
C26_ListHandlerRefreshesOnlyUnsetCache ==
  l_last.done =>
    /\ l_last.refreshed <=> ~l_last.was_set
    /\ l_last.was_set =>
         /\ l_last.calls = 0
         /\ l_last.after = l_last.before
         /\ l_last.returned = l_last.before[l_last.handler]
    /\ l_last.returned = CacheOrEmpty(l_last.after[l_last.handler])

\* C26 witness: a handler whose cache was set to an empty list returned while the
\* aggregators exist
C26_Witness ==
  /\ l_last.done
  /\ l_aggregators
  /\ l_last.was_set
  /\ l_last.before[l_last.handler] = "empty"

\* ------------------------------------------------- saving and loading a Config

\* the provider names given to enable_provider and disable_provider; "logging" is also a
\* top-level key of config.yaml
ConfigNames == {"p1", "p2", "logging"}

\* the settings given to enable_provider: none, or a dict with one key
SettingsArgs == {EmptyMap, Put(EmptyMap, "api_key", "key1"), Put(EmptyMap, "level", "DEBUG")}

\* the global settings a Config is built with
GlobalChoices ==
  {DefaultGlobal,
   [logging_level |-> "DEBUG", logging_format |-> "text",
    connection_timeout |-> 10, request_timeout |-> 5]}

\* d.get(k, default)
DictGet(d, k, default) == IF k \in DOMAIN d THEN d[k] ELSE default

\* the dict Config.save hands to yaml.dump: the three fixed keys, then one key for each
\* provider with settings, which replaces a fixed key of the same name
SaveYaml(c) ==
  LET logging == Put(Put(EmptyMap, "level", c.global_settings.logging_level),
                     "format", c.global_settings.logging_format)
      timeouts == Put(Put(EmptyMap, "connection", c.global_settings.connection_timeout),
                      "request", c.global_settings.request_timeout)
      fixed == Put(Put(Put(EmptyMap, "enabled_providers", c.enabled_providers),
                       "logging", logging), "timeouts", timeouts)
  IN [k \in (DOMAIN fixed) \cup (DOMAIN c.provider_settings) |->
        IF k \in DOMAIN c.provider_settings THEN c.provider_settings[k] ELSE fixed[k]]

\* the Config that Config.load builds from the dict yaml.safe_load returned: global
\* settings from the keys "logging" and "timeouts", provider settings for the enabled
\* providers that are keys of the file
LoadYaml(y) ==
  LET enabled == DictGet(y, "enabled_providers", <<>>)
      names == {enabled[i] : i \in 1..Len(enabled)}
      logging == DictGet(y, "logging", EmptyMap)
      timeouts == DictGet(y, "timeouts", EmptyMap)
  IN [enabled_providers |-> enabled,
      provider_settings |-> [n \in {x \in names : x \in DOMAIN y} |-> y[n]],
      global_settings |->
        [logging_level |->
           IF "logging" \in DOMAIN y THEN DictGet(logging, "level", "INFO")
           ELSE DefaultGlobal.logging_level,
         logging_format |->
           IF "logging" \in DOMAIN y THEN DictGet(logging, "format", "json")
           ELSE DefaultGlobal.logging_format,
         connection_timeout |->
           IF "timeouts" \in DOMAIN y
             THEN DictGet(timeouts, "connection", DefaultConnectionTimeout)
           ELSE DefaultGlobal.connection_timeout,
         request_timeout |->
           IF "timeouts" \in DOMAIN y
             THEN DictGet(timeouts, "request", DefaultRequestTimeout)
           ELSE DefaultGlobal.request_timeout]]

\* whether name n is in the list
InList(n, list) == \E i \in 1..Len(list) : list[i] = n

\* list.remove(n): the list without the first occurrence of n
ListRemove(list, n) ==
  LET i == CHOOSE j \in 1..Len(list) : list[j] = n /\ \A k \in 1..(j - 1) : list[k] # n
  IN SubSeq(list, 1, i - 1) \o SubSeq(list, i + 1, Len(list))

\* Config.enable_provider(n, settings): appends n when it is not enabled, and stores the
\* settings when they are given and not empty
EnableProvider ==
  /\ cfg_phase = "editing"
  /\ \E n \in ConfigNames, settings \in SettingsArgs :
       cfg' = [cfg EXCEPT
                 !.enabled_providers = IF InList(n, @) THEN @ ELSE Append(@, n),
                 !.provider_settings = IF settings # EmptyMap THEN Put(@, n, settings) ELSE @]
  /\ UNCHANGED <<cfg_file_exists, cfg_file, cfg_loaded, cfg_phase, cfg_got, cfgRest>>

\* Config.disable_provider(n): removes n from the enabled names and keeps its settings
DisableProvider ==
  /\ cfg_phase = "editing"
  /\ \E n \in ConfigNames :
       cfg' = [cfg EXCEPT !.enabled_providers = IF InList(n, @) THEN ListRemove(@, n) ELSE @]
  /\ UNCHANGED <<cfg_file_exists, cfg_file, cfg_loaded, cfg_phase, cfg_got, cfgRest>>

\* Config.save(path)
SaveConfig ==
  /\ cfg_phase \in {"editing", "reading"}
  /\ cfg_file' = SaveYaml(cfg)
  /\ cfg_file_exists' = TRUE
  /\ cfg_phase' = "saved"
  /\ UNCHANGED <<cfg, cfg_loaded, cfg_got, cfgRest>>

\* Config.load(path): a default Config when the file does not exist
LoadConfig ==
  /\ cfg_phase \in {"editing", "saved"}
  /\ cfg_loaded' = IF cfg_file_exists THEN LoadYaml(cfg_file) ELSE DefaultConfig
  /\ cfg_phase' = "loaded"
  /\ UNCHANGED <<cfg, cfg_file_exists, cfg_file, cfg_got, cfgRest>>

\* what os.environ may hold: nothing for a provider, or a variable for p1 next to an
\* unrelated one, or a variable for p2; a name is the list of its parts
Environs ==
  {EmptyMap,
   Put(Put(EmptyMap, <<"HOME">>, "/root"), <<"P1", "_", "API_KEY">>, "envkey"),
   Put(EmptyMap, <<"P2", "_", "TOKEN">>, "tok")}

\* str.upper() of a provider name
Upper(n) == CASE n = "p1" -> "P1" [] n = "p2" -> "P2" [] n = "logging" -> "LOGGING"

\* str.lower() of the part of a variable name after the prefix
Lower(k) == CASE k = "API_KEY" -> "api_key" [] k = "TOKEN" -> "token" [] OTHER -> k

\* env_prefix = f"{provider_name.upper()}_"
EnvPrefix(n) == <<Upper(n), "_">>

\* config_key = key[len(env_prefix):].lower()
ConfigKey(key, prefix) == Lower(SubSeq(key, Len(prefix) + 1, Len(key))[1])

\* the loop over os.environ.items(): config[config_key] = value for every variable whose
\* name starts with the prefix of provider n
MergeEnv(config, n, env) ==
  LET matching == {key \in DOMAIN env : StartsWith(key, EnvPrefix(n)) /\ Len(key) > Len(EnvPrefix(n))}
      keys == {ConfigKey(key, EnvPrefix(n)) : key \in matching}
  IN [k \in (DOMAIN config) \cup keys |->
        IF k \in keys
          THEN env[CHOOSE key \in matching : ConfigKey(key, EnvPrefix(n)) = k]
          ELSE config[k]]

\* Config.get_provider_config(n): config is the stored dict of n itself when n has
\* settings, a new dict otherwise; the variables of the environment are written into it.
\* The Config is read once the wizard has edited it, and may be saved afterwards
GetProviderConfig ==
  /\ cfg_phase \in {"editing", "reading"}
  /\ cfg_phase' = "reading"
  /\ \E n \in ConfigNames, env \in Environs :
       LET config == MergeEnv(DictGet(cfg.provider_settings, n, EmptyMap), n, env)
           after == IF n \in DOMAIN cfg.provider_settings
                      THEN [cfg EXCEPT !.provider_settings[n] = config]
                      ELSE cfg
       IN /\ cfg' = after
          /\ cfg_got' = [name |-> n, env |-> env, returned |-> config, before |-> cfg,
                         after |-> after]
  /\ UNCHANGED <<cfg_file_exists, cfg_file, cfg_loaded, cfgRest>>

\* a Config built with either global settings
InitCfg ==
  /\ AggIdle /\ TrIdle /\ GwIdle /\ ProvIdle /\ SrvIdle /\ LstIdle /\ LifeIdle
  /\ \E g \in GlobalChoices : cfg = [DefaultConfig EXCEPT !.global_settings = g]
  /\ cfg_file_exists = FALSE
  /\ cfg_file = EmptyMap
  /\ cfg_loaded = DefaultConfig
  /\ cfg_phase = "editing"
  /\ cfg_got = NoGet

NextCfg == EnableProvider \/ DisableProvider \/ SaveConfig \/ LoadConfig \/ GetProviderConfig

SpecCfg == InitCfg /\ [][NextCfg]_vars

\* C29: loading a saved Config gives a Config with the same enabled_providers, the same
\* provider_settings and the same global settings.
C29_LoadAfterSaveIsIdentity ==
  (cfg_phase = "loaded" /\ cfg_file_exists) =>
    /\ cfg_loaded.enabled_providers = cfg.enabled_providers
    /\ cfg_loaded.provider_settings = cfg.provider_settings
    /\ cfg_loaded.global_settings = cfg.global_settings


\* C40: get_provider_config(name) returns the stored settings of the provider merged with
\* the matching environment variables and leaves the Config as it was: the same
\* provider_settings and the same enabled_providers, so that save() writes what was stored.
C40_GetProviderConfigIsReadOnly ==
  cfg_got.name # "none" =>
    /\ cfg_got.returned = MergeEnv(DictGet(cfg_got.before.provider_settings, cfg_got.name, EmptyMap),
                                   cfg_got.name, cfg_got.env)
    /\ cfg_got.after.provider_settings = cfg_got.before.provider_settings
    /\ cfg_got.after.enabled_providers = cfg_got.before.enabled_providers
    /\ SaveYaml(cfg_got.after) = SaveYaml(cfg_got.before)

\* ------------------------------------------------- writes of concurrent send_request calls

\* the calls that are in their write step: between stdin.write() and the return of drain()
\* for stdio, inside client.post() for SSE
Writers == {c \in Calls : pc[c] = "writing"}

\* C28: the writes of concurrent send_request calls on one transport are serialized: no
\* two calls are in their write step (stdio: write and drain; SSE: the POST) at the same
\* time.
C28_WritesAreSerialized == Cardinality(Writers) <= 1

\* ------------------------------------------------- connect and disconnect of a transport

MaxDisconnects == 2

\* timeout of the wait that follows terminate(), in seconds
TerminateWait == 3

\* timeout of the wait that follows kill(), in seconds
KillWait == 2

\* one call disconnect() makes on the process or on the HTTP client, and how it ended
Step(call, timeout, how) == [call |-> call, timeout |-> timeout, how |-> how]

\* StdioTransport.connect() is called and is suspended in create_subprocess_exec
StdioConnect ==
  /\ tl_kind = "stdio"
  /\ ~tl_connected
  /\ tl_conn = "idle"
  /\ tl_conn' = "starting"
  /\ UNCHANGED <<tl_kind, tl_connected, tl_listen_task, tl_handle, tl_child, tl_history,
                 tl_disconnects, tl_last, tl_disc, lifeRest>>

\* create_subprocess_exec returns: the process is stored, connected is set and the listen
\* task is created; or it raises and connect() raises ConnectionError with nothing assigned
StdioConnectReturns ==
  /\ tl_kind = "stdio"
  /\ tl_conn = "starting"
  /\ tl_conn' = "idle"
  /\ \E started \in BOOLEAN :
       IF started
         THEN /\ tl_handle' = TRUE
              /\ tl_child' = "running"
              /\ tl_connected' = TRUE
              /\ tl_listen_task' = "running"
              /\ tl_history' = "connected"
              /\ tl_disc' = [tl_disc EXCEPT !.mine = FALSE]
         ELSE /\ tl_history' = "connect_failed"
              /\ UNCHANGED <<tl_handle, tl_child, tl_connected, tl_listen_task, tl_disc>>
  /\ UNCHANGED <<tl_kind, tl_disconnects, tl_last, lifeRest>>

\* SSETransport.connect() is called: the client cannot be created and connect() raises, or
\* the client is stored and the call is suspended in the health request
SseConnect ==
  /\ tl_kind = "sse"
  /\ ~tl_connected
  /\ tl_conn = "idle"
  /\ \E created \in BOOLEAN :
       IF created
         THEN /\ tl_handle' = TRUE
              /\ tl_conn' = "starting"
              /\ UNCHANGED tl_history
         ELSE /\ tl_history' = "connect_failed"
              /\ UNCHANGED <<tl_handle, tl_conn>>
  /\ UNCHANGED <<tl_kind, tl_connected, tl_listen_task, tl_child, tl_disconnects, tl_last,
                 tl_disc, lifeRest>>

\* the health request returns: connected is set and the listen task is created; or it
\* fails and connect() raises ConnectionError, the client staying where it was put
SseConnectReturns ==
  /\ tl_kind = "sse"
  /\ tl_conn = "starting"
  /\ tl_conn' = "idle"
  /\ \E ok \in BOOLEAN :
       IF ok
         THEN /\ tl_connected' = TRUE
              /\ tl_listen_task' = "running"
              /\ tl_history' = "connected"
         ELSE /\ tl_history' = "connect_failed"
              /\ UNCHANGED <<tl_connected, tl_listen_task>>
  /\ UNCHANGED <<tl_kind, tl_handle, tl_child, tl_disconnects, tl_last, tl_disc, lifeRest>>

\* the subprocess exits on its own
ChildExits ==
  /\ tl_child = "running"
  /\ tl_child' = "exited"
  /\ UNCHANGED <<tl_kind, tl_connected, tl_listen_task, tl_handle, tl_history,
                 tl_disconnects, tl_last, tl_conn, tl_disc, lifeRest>>

\* _listen_loop() returns: end of the stream, or an exception it prints ('Not connected'
\* when it starts on a transport without process or client)
ListenTaskEnds ==
  /\ tl_listen_task = "running"
  /\ tl_listen_task' = "done"
  /\ UNCHANGED <<tl_kind, tl_connected, tl_handle, tl_child, tl_history,
                 tl_disconnects, tl_last, tl_conn, tl_disc, lifeRest>>

\* disconnect() returns, or raises: the calls it made and the transport as it leaves it
\* (flag is its connected attribute)
DisconnectEnds(call, steps, raised, flag, task, handle, child) ==
  /\ tl_last' = [called |-> TRUE, history |-> call.history, handle |-> call.handle,
                 child |-> call.child, steps |-> steps, raised |-> raised,
                 connected_after |-> flag, task_after |-> task,
                 handle_after |-> handle, child_after |-> child]
  /\ tl_handle' = handle
  /\ tl_child' = child
  /\ tl_history' = "disconnected"
  /\ tl_disc' = NoDisconnectCall

\* disconnect() is suspended in its next await
DisconnectWaits(call, at, steps) ==
  /\ tl_disc' = [call EXCEPT !.pc = at, !.steps = steps, !.mine = TRUE]
  /\ UNCHANGED <<tl_handle, tl_child, tl_history, tl_last>>

\* 'if self.process:' of StdioTransport.disconnect(): stdin is closed and the call is
\* suspended in stdin.wait_closed(); without a process disconnect() returns
StdioStop(call, flag, task) ==
  IF tl_handle THEN DisconnectWaits(call, "wait_closed", call.steps)
  ELSE DisconnectEnds(call, call.steps, FALSE, flag, task, FALSE, tl_child)

\* 'if self.client:' of SSETransport.disconnect(): the call is suspended in aclose();
\* without a client disconnect() returns
SseStop(call, flag, task) ==
  IF tl_handle THEN DisconnectWaits(call, "aclose", call.steps)
  ELSE DisconnectEnds(call, call.steps, FALSE, flag, task, FALSE, tl_child)

\* the transport as a disconnect() finds it
DisconnectCall == [NoDisconnectCall EXCEPT !.history = tl_history, !.handle = tl_handle,
                                           !.child = tl_child]

\* StdioTransport.disconnect() is called: connected is cleared; a listen task that runs
\* is cancelled and awaited; else the call goes on to the process
StdioDisconnect ==
  /\ tl_kind = "stdio"
  /\ tl_disc.pc = "idle"
  /\ tl_disconnects < MaxDisconnects
  /\ tl_disconnects' = tl_disconnects + 1
  /\ tl_connected' = FALSE
  /\ IF tl_listen_task = "running"
       THEN /\ tl_listen_task' = "cancelling"
            /\ DisconnectWaits(DisconnectCall, "await_task", <<>>)
       ELSE /\ UNCHANGED tl_listen_task
            /\ StdioStop(DisconnectCall, FALSE, tl_listen_task)
  /\ UNCHANGED <<tl_kind, tl_conn, lifeRest>>

\* SSETransport.disconnect() is called: connected is cleared; a listen task that runs is
\* cancelled and awaited; else the call goes on to the client
SseDisconnect ==
  /\ tl_kind = "sse"
  /\ tl_disc.pc = "idle"
  /\ tl_disconnects < MaxDisconnects
  /\ tl_disconnects' = tl_disconnects + 1
  /\ tl_connected' = FALSE
  /\ IF tl_listen_task = "running"
       THEN /\ tl_listen_task' = "cancelling"
            /\ DisconnectWaits(DisconnectCall, "await_task", <<>>)
       ELSE /\ UNCHANGED tl_listen_task
            /\ SseStop(DisconnectCall, FALSE, tl_listen_task)
  /\ UNCHANGED <<tl_kind, tl_conn, lifeRest>>

\* the listen task that disconnect() cancelled runs: _listen_loop() catches CancelledError
\* and returns, and the task is done; disconnect() stays suspended in its await of the
\* task until a later callback resumes it. A connect() that resumed meanwhile has put a
\* new task in _listen_task, which this leaves alone
ListenTaskCancelled ==
  /\ tl_disc.pc = "await_task"
  /\ ~tl_disc.task_done
  /\ tl_disc' = [tl_disc EXCEPT !.task_done = TRUE]
  /\ tl_listen_task' = IF tl_listen_task = "cancelling" THEN "done" ELSE tl_listen_task
  /\ UNCHANGED <<tl_kind, tl_connected, tl_handle, tl_child, tl_history, tl_disconnects,
                 tl_last, tl_conn, lifeRest>>

\* the task disconnect() awaits is done: disconnect() is resumed and goes on to the process
\* or client
DisconnectTaskAwaited ==
  /\ tl_disc.pc = "await_task"
  /\ tl_disc.task_done
  /\ LET call == [tl_disc EXCEPT !.task_done = FALSE]
     IN IF tl_kind = "stdio" THEN StdioStop(call, tl_connected, tl_listen_task)
        ELSE SseStop(call, tl_connected, tl_listen_task)
  /\ UNCHANGED <<tl_kind, tl_connected, tl_listen_task, tl_disconnects, tl_conn, lifeRest>>

\* stdin.wait_closed() returns, terminate() is called and the call is suspended in the
\* wait of 3 seconds; an exception of the close (a pipe that broke with data still
\* buffered) or of terminate() (a child that is gone) is swallowed and the finally
\* clause drops the process
StdioStdinClosed ==
  /\ tl_disc.pc = "wait_closed"
  /\ \E close \in {"ok", "raises"},
        terminate \in IF tl_child = "exited" THEN {"ok", "raises"} ELSE {"ok"} :
       LET closed == Append(tl_disc.steps, Step("stdin.close", 0, close))
           terminated == Append(closed, Step("terminate", 0, terminate))
       IN IF close = "raises"
            THEN DisconnectEnds(tl_disc, closed, FALSE, tl_connected, tl_listen_task,
                                FALSE, tl_child)
          ELSE IF terminate = "raises"
            THEN DisconnectEnds(tl_disc, terminated, FALSE, tl_connected, tl_listen_task,
                                FALSE, tl_child)
          ELSE DisconnectWaits(tl_disc, "wait_terminated", terminated)
  /\ UNCHANGED <<tl_kind, tl_connected, tl_listen_task, tl_disconnects, tl_conn, lifeRest>>

\* the wait that follows terminate() ends: the child has exited and the process is
\* dropped; or the 3 seconds are over, kill() is called and the call is suspended in the
\* wait of 2 seconds, an exception of kill() being swallowed. The wait times out on a
\* child that has exited too: Process.wait() returns only once the pipes of the child are
\* closed, and a process the child started may hold them
StdioWaitTerminated ==
  /\ tl_disc.pc = "wait_terminated"
  /\ \E wait \in {"exited", "timeout"}, kill \in {"ok", "raises"} :
       LET waited == Append(tl_disc.steps, Step("wait", TerminateWait, wait))
           killed == Append(waited, Step("kill", 0, kill))
       IN IF wait = "exited"
            THEN DisconnectEnds(tl_disc, waited, FALSE, tl_connected, tl_listen_task, FALSE,
                                IF tl_disc.mine THEN "exited" ELSE tl_child)
          ELSE IF kill = "raises"
            THEN DisconnectEnds(tl_disc, killed, FALSE, tl_connected, tl_listen_task,
                                FALSE, tl_child)
          ELSE DisconnectWaits(tl_disc, "wait_killed", killed)
  /\ UNCHANGED <<tl_kind, tl_connected, tl_listen_task, tl_disconnects, tl_conn, lifeRest>>

\* the wait that follows kill() ends, by the exit of the child or after 2 seconds, and the
\* process is dropped
StdioWaitKilled ==
  /\ tl_disc.pc = "wait_killed"
  /\ \E wait \in {"exited", "timeout"} :
       DisconnectEnds(tl_disc, Append(tl_disc.steps, Step("wait", KillWait, wait)), FALSE,
                      tl_connected, tl_listen_task, FALSE,
                      IF wait = "exited" /\ tl_disc.mine THEN "exited" ELSE tl_child)
  /\ UNCHANGED <<tl_kind, tl_connected, tl_listen_task, tl_disconnects, tl_conn, lifeRest>>

\* aclose() returns and the client is dropped; or it raises, which leaves disconnect()
\* before the client is dropped
SseClientClosed ==
  /\ tl_disc.pc = "aclose"
  /\ \E aclose \in {"ok", "raises"} :
       DisconnectEnds(tl_disc, Append(tl_disc.steps, Step("aclose", 0, aclose)),
                      aclose = "raises", tl_connected, tl_listen_task,
                      tl_handle /\ aclose = "raises", tl_child)
  /\ UNCHANGED <<tl_kind, tl_connected, tl_listen_task, tl_disconnects, tl_conn, lifeRest>>

\* a new transport of either kind
InitLife ==
  /\ AggIdle /\ TrIdle /\ GwIdle /\ ProvIdle /\ SrvIdle /\ LstIdle /\ CfgIdle
  /\ tl_kind \in {"stdio", "sse"}
  /\ tl_connected = FALSE
  /\ tl_listen_task = "None"
  /\ tl_handle = FALSE
  /\ tl_child = "none"
  /\ tl_history = "never"
  /\ tl_disconnects = 0
  /\ tl_last = NoDisconnect
  /\ tl_conn = "idle"
  /\ tl_disc = NoDisconnectCall

NextLife ==
  \/ StdioConnect
  \/ StdioConnectReturns
  \/ SseConnect
  \/ SseConnectReturns
  \/ ChildExits
  \/ ListenTaskEnds
  \/ StdioDisconnect
  \/ ListenTaskCancelled
  \/ SseDisconnect
  \/ DisconnectTaskAwaited
  \/ StdioStdinClosed
  \/ StdioWaitTerminated
  \/ StdioWaitKilled
  \/ SseClientClosed

SpecLife == InitLife /\ [][NextLife]_vars

\* C27: disconnect() raises nothing, on a second call and on a transport that never
\* connected or whose connect() failed included, and after it the transport is not
\* connected, its listen task does not run and its process or HTTP client is dropped.
C27_DisconnectIsIdempotent ==
  tl_last.called =>
    /\ ~tl_last.raised
    /\ ~tl_last.connected_after
    /\ tl_last.task_after # "running"
    /\ ~tl_last.handle_after

\* the calls disconnect() made, by name
CallsMade == [i \in 1..Len(tl_last.steps) |-> tl_last.steps[i].call]

\* the order of the calls of a stdio disconnect()
StopOrder == <<"stdin.close", "terminate", "wait", "kill", "wait">>

\* C30: disconnect() of a stdio transport with a process closes stdin, terminates, waits
\* up to 3 seconds, and only if the child has not exited by then kills and waits up to 2
\* seconds; terminate is sent whenever the child may still be running, kill never comes
\* before terminate, and nothing is raised.
C30_StdioDisconnectOrder ==
  (tl_kind = "stdio" /\ tl_last.called /\ tl_last.handle) =>
    /\ ~tl_last.raised
    /\ Len(CallsMade) <= Len(StopOrder)
    /\ CallsMade = SubSeq(StopOrder, 1, Len(CallsMade))
    /\ Len(CallsMade) >= 3 => tl_last.steps[3].timeout = TerminateWait
    /\ Len(CallsMade) >= 4 => tl_last.steps[3].how = "timeout"
    /\ Len(CallsMade) >= 5 => tl_last.steps[5].timeout = KillWait
    /\ tl_last.child = "running" => \E i \in 1..Len(CallsMade) : CallsMade[i] = "terminate"

\* ------------------------------------------------ specification of the aggregator

InitAgg == AggIdle /\ TrIdle /\ GwIdle /\ PeriIdle

NextAgg == AggregateTools \/ RouteToolCall \/ RouterProvidersCleared

SpecAgg == InitAgg /\ [][NextAgg]_vars

====
